---- MODULE Spec2Model ----
(***************************************************************************)
(* A model of the DomainEx server-side-rendering dispatcher                *)
(* (src/examples/domainex.js): the cache fingerprint, the framework        *)
(* detector, the render adapters, the template engine and the render       *)
(* pipeline with its suspension points.                                    *)
(*                                                                         *)
(* A JavaScript string is a sequence of characters.  Every character is a  *)
(* record [c, o]: c is the character, o is a ghost tag that records where  *)
(* the character was copied from ("t" the template file, "f" the fragment  *)
(* an adapter returned, "p" a property value, "k" a property key, "x" text *)
(* the code itself produced).  The code never reads the tag: every         *)
(* comparison below is on c alone.                                         *)
(***************************************************************************)
EXTENDS Integers, Sequences, FiniteSets, TLC

\* ------------------------------------------------------------------ strings

Lit(s, tag) == [i \in 1..Len(s) |-> [c |-> s[i], o |-> tag]]

Chars(str) == [i \in 1..Len(str) |-> str[i].c]

\* str.startsWith(pat, i) with i counted from 1.
MatchAt(str, pat, i) ==
    /\ i + Len(pat) - 1 <= Len(str)
    /\ \A j \in 1..Len(pat) : str[i + j - 1].c = pat[j]

\* str.indexOf(pat): the first position (from 1) where pat occurs, 0 if none.
IndexOf(str, pat) ==
    LET hits == {i \in 1..Len(str) : MatchAt(str, pat, i)}
    IN IF hits = {} THEN 0 ELSE CHOOSE i \in hits : \A j \in hits : i <= j

Contains(str, pat) == \E i \in 1..(Len(str) + 1) : MatchAt(str, pat, i)

\* The character U+0060, which a TLA+ string cannot hold.
Backtick == "BACKTICK"

Digits == <<"0", "1", "2", "3", "4", "5", "6", "7", "8", "9">>

IsDigit(ch) == \E d \in 1..10 : Digits[d] = ch

DigitVal(ch) == (CHOOSE d \in 1..10 : Digits[d] = ch) - 1

\* Number.prototype.toString for the small non-negative integers of the model.
RECURSIVE NumChars(_)
NumChars(n) == IF n < 10 THEN <<Digits[n + 1]>>
               ELSE NumChars(n \div 10) \o <<Digits[(n % 10) + 1]>>

\* The code unit of a character, for the characters the model uses
\* (Array.prototype.sort without a comparator orders by UTF-16 code units).
CodeUnit(ch) ==
    CASE ch = "\"" -> 34  [] ch = "$" -> 36  [] ch = "&" -> 38  [] ch = "'" -> 39
      [] ch = "<" -> 60   [] ch = ">" -> 62  [] ch = "_" -> 95  [] ch = Backtick -> 96
      [] ch = "|" -> 124
      [] IsDigit(ch) -> 48 + DigitVal(ch)
      [] ch = "A" -> 65   [] ch = "H" -> 72  [] ch = "M" -> 77  [] ch = "Z" -> 90
      [] ch = "a" -> 97   [] ch = "b" -> 98  [] ch = "c" -> 99  [] ch = "d" -> 100
      [] ch = "e" -> 101  [] ch = "i" -> 105 [] ch = "l" -> 108 [] ch = "m" -> 109
      [] ch = "o" -> 111  [] ch = "p" -> 112 [] ch = "r" -> 114 [] ch = "s" -> 115
      [] ch = "t" -> 116  [] ch = "x" -> 120
      [] OTHER -> 200

\* a < b in the order sort() uses for strings (plain character sequences).
RECURSIVE StrLess(_, _)
StrLess(a, b) ==
    IF b = <<>> THEN FALSE
    ELSE IF a = <<>> THEN TRUE
    ELSE IF CodeUnit(Head(a)) # CodeUnit(Head(b))
         THEN CodeUnit(Head(a)) < CodeUnit(Head(b))
    ELSE StrLess(Tail(a), Tail(b))

\* --------------------------------------------------------- property values

(***************************************************************************)
(* A property value: undefined, null, a number, a string, or (one level    *)
(* deep) an array or a record of numbers.  A property bag is what the      *)
(* caller passes as props: a record, or an array, given as its entries in  *)
(* insertion order (keys distinct).                                        *)
(***************************************************************************)
VUndef == [t |-> "undefined", n |-> 0, s |-> <<>>, kv |-> <<>>]
VNull == [t |-> "null", n |-> 0, s |-> <<>>, kv |-> <<>>]
VNum(n) == [t |-> "number", n |-> n, s |-> <<>>, kv |-> <<>>]
VStr(str) == [t |-> "string", n |-> 0, s |-> Lit(str, "p"), kv |-> <<>>]
VArr(ns) == [t |-> "array", n |-> 0, s |-> <<>>,
             kv |-> [i \in 1..Len(ns) |-> [k |-> NumChars(i - 1), n |-> ns[i]]]]
VObj(kv) == [t |-> "object", n |-> 0, s |-> <<>>, kv |-> kv]

Rec(e) == [arr |-> FALSE, e |-> e]
Arr(vs) == [arr |-> TRUE, e |-> [i \in 1..Len(vs) |-> [k |-> NumChars(i - 1), v |-> vs[i]]]]

\* An array index in the sense of the language: a canonical numeric string.
IsArrayIndex(k) ==
    /\ Len(k) > 0
    /\ \A i \in 1..Len(k) : IsDigit(k[i])
    /\ (Len(k) = 1 \/ k[1] # "0")

RECURSIVE IndexVal(_)
IndexVal(k) == IF k = <<>> THEN 0
               ELSE 10 * IndexVal(SubSeq(k, 1, Len(k) - 1)) + DigitVal(k[Len(k)])

IndexLess(a, b) == IndexVal(a.k) < IndexVal(b.k)

KeyLess(a, b) == StrLess(a, b)

\* The order in which a record's own properties are enumerated: array-index
\* keys in ascending numeric order, then the other keys in insertion order.
OwnOrder(e) ==
    SortSeq(SelectSeq(e, LAMBDA x : IsArrayIndex(x.k)), IndexLess)
        \o SelectSeq(e, LAMBDA x : ~IsArrayIndex(x.k))

\* Object.keys(obj)
ObjectKeys(e) == LET o == OwnOrder(e) IN [i \in 1..Len(o) |-> o[i].k]

\* obj[k] for a key the record holds.
GetOwn(e, k) == LET i == CHOOSE j \in 1..Len(e) : e[j].k = k IN e[i]

HasOwn(e, k) == \E j \in 1..Len(e) : e[j].k = k

\* --------------------------------------------------------------------- JSON

RECURSIVE JoinComma(_)
JoinComma(parts) ==
    IF parts = <<>> THEN <<>>
    ELSE IF Len(parts) = 1 THEN parts[1]
    ELSE parts[1] \o Lit(<<",">>, "x") \o JoinComma(Tail(parts))

\* QuoteJSONString: the characters " and \ get a backslash.
RECURSIVE JsonEscape(_)
JsonEscape(str) ==
    IF str = <<>> THEN <<>>
    ELSE IF Head(str).c \in {"\"", "\\"}
         THEN Lit(<<"\\">>, "x") \o <<Head(str)>> \o JsonEscape(Tail(str))
         ELSE <<Head(str)>> \o JsonEscape(Tail(str))

JsonQuote(str) == Lit(<<"\"">>, "x") \o JsonEscape(str) \o Lit(<<"\"">>, "x")

JsonNumber(n) == Lit(NumChars(n), "p")

\* JSON.stringify of a nested record of numbers.
JsonInnerObject(kv) ==
    LET o == OwnOrder(kv)
    IN Lit(<<"{">>, "x")
         \o JoinComma([i \in 1..Len(o) |->
                JsonQuote(Lit(o[i].k, "k")) \o Lit(<<":">>, "x") \o JsonNumber(o[i].n)])
         \o Lit(<<"}">>, "x")

JsonInnerArray(kv) ==
    Lit(<<"[">>, "x") \o JoinComma([i \in 1..Len(kv) |-> JsonNumber(kv[i].n)])
        \o Lit(<<"]">>, "x")

\* JSON.stringify(v) for a defined value v.
JsonValue(v) ==
    CASE v.t = "null" -> Lit(<<"n", "u", "l", "l">>, "x")
      [] v.t = "number" -> JsonNumber(v.n)
      [] v.t = "string" -> JsonQuote(v.s)
      [] v.t = "array" -> JsonInnerArray(v.kv)
      [] v.t = "object" -> JsonInnerObject(v.kv)

\* JSON.stringify of a record: a member whose value is undefined is left out.
JsonObject(e) ==
    LET o == SelectSeq(OwnOrder(e), LAMBDA x : x.v.t # "undefined")
    IN Lit(<<"{">>, "x")
         \o JoinComma([i \in 1..Len(o) |->
                JsonQuote(Lit(o[i].k, "k")) \o Lit(<<":">>, "x") \o JsonValue(o[i].v)])
         \o Lit(<<"}">>, "x")

\* JSON.stringify of an array: an undefined element is written null.
JsonArray(e) ==
    Lit(<<"[">>, "x")
        \o JoinComma([i \in 1..Len(e) |->
               IF e[i].v.t = "undefined" THEN Lit(<<"n", "u", "l", "l">>, "x")
               ELSE JsonValue(e[i].v)])
        \o Lit(<<"]">>, "x")

\* JSON.stringify(props)
JsonStringify(props) == IF props.arr THEN JsonArray(props.e) ELSE JsonObject(props.e)

\* ---------------------------------------------------------------- cache key

\* A variant of SortedKeys: the keys are taken in insertion order, unsorted.
UnsortedKeys(e) == [i \in 1..Len(e) |-> e[i].k]

\* Object.keys(obj).sort()
SortedKeys(e) == SortSeq(ObjectKeys(e), KeyLess)

\* _stableStringify: out = {}; for (k of keys) out[k] = obj[k]; JSON.stringify(out)
_stableStringify(props) ==
    LET keys == SortedKeys(props.e)
        out == [i \in 1..Len(keys) |-> GetOwn(props.e, keys[i])]
    IN JsonObject(out)

\* crypto.createHash("sha1").update(raw).digest("hex"), taken as collision-free:
\* the digest of a text is represented by the text.
Sha1Hex(raw) == <<"sha1", raw>>

CacheKeyRaw(componentName, props) ==
    componentName \o <<"|">> \o Chars(_stableStringify(props))

_cacheKey(componentName, props) == Sha1Hex(CacheKeyRaw(componentName, props))

\* --------------------------------------------------------- String.replace

(***************************************************************************)
(* GetSubstitution: a replacement text given as a string is scanned for    *)
(* the patterns $$, $&, $` and $' (the patterns $n and $<name> stay as     *)
(* they are: the patterns used here have no capture groups).               *)
(***************************************************************************)
RECURSIVE GetSubstitution(_, _, _, _)
GetSubstitution(repl, matched, before, after) ==
    LET dollars == {k \in 1..(Len(repl) - 1) : repl[k].c = "$"}
    IN IF dollars = {} THEN repl
       ELSE LET d == CHOOSE k \in dollars : \A m \in dollars : k <= m
                nxt == repl[d + 1].c
                lead == SubSeq(repl, 1, d - 1)
                rest == SubSeq(repl, d + 2, Len(repl))
            IN CASE nxt = "$" ->
                      lead \o <<repl[d]>> \o GetSubstitution(rest, matched, before, after)
                 [] nxt = "&" ->
                      lead \o matched \o GetSubstitution(rest, matched, before, after)
                 [] nxt = Backtick ->
                      lead \o before \o GetSubstitution(rest, matched, before, after)
                 [] nxt = "'" ->
                      lead \o after \o GetSubstitution(rest, matched, before, after)
                 [] OTHER ->
                      lead \o <<repl[d]>>
                        \o GetSubstitution(SubSeq(repl, d + 1, Len(repl)),
                                           matched, before, after)

\* str.replace(pat, repl) with a string pattern: the first occurrence only.
ReplaceFirst(str, pat, repl) ==
    LET i == IndexOf(str, pat)
        n == Len(pat)
    IN IF i = 0 THEN str
       ELSE SubSeq(str, 1, i - 1)
              \o GetSubstitution(repl, SubSeq(str, i, i + n - 1),
                                 SubSeq(str, 1, i - 1), SubSeq(str, i + n, Len(str)))
              \o SubSeq(str, i + n, Len(str))

\* str.replace(/pat/g, repl) and str.replaceAll(pat, repl) for a literal pat:
\* every occurrence, found left to right in the original text.
RECURSIVE ReplaceScan(_, _, _, _)
ReplaceScan(str, pat, repl, i) ==
    LET hits == {j \in i..Len(str) : MatchAt(str, pat, j)}
    IN IF hits = {} THEN SubSeq(str, i, Len(str))
       ELSE LET j == CHOOSE h \in hits : \A m \in hits : h <= m
            IN SubSeq(str, i, j - 1)
                 \o GetSubstitution(repl, SubSeq(str, j, j + Len(pat) - 1),
                                    SubSeq(str, 1, j - 1),
                                    SubSeq(str, j + Len(pat), Len(str)))
                 \o ReplaceScan(str, pat, repl, j + Len(pat))

ReplaceAll(str, pat, repl) == ReplaceScan(str, pat, repl, 1)

\* ------------------------------------------------------------ template engine

EntityAmp == <<"&", "a", "m", "p", ";">>
EntityLt == <<"&", "l", "t", ";">>
EntityGt == <<"&", "g", "t", ";">>
EntityQuot == <<"&", "q", "u", "o", "t", ";">>
EntityApos == <<"&", "#", "0", "3", "9", ";">>

\* A variant of _escapeHtml: the apostrophe is left as it is.
_escapeHtmlButApostrophe(str) ==
    LET s1 == ReplaceAll(str, <<"&">>, Lit(EntityAmp, "x"))
        s2 == ReplaceAll(s1, <<"<">>, Lit(EntityLt, "x"))
        s3 == ReplaceAll(s2, <<">">>, Lit(EntityGt, "x"))
    IN ReplaceAll(s3, <<"\"">>, Lit(EntityQuot, "x"))

\* _escapeHtml applied to a string (String(str) is taken by StringOf below).
_escapeHtml(str) ==
    LET s1 == ReplaceAll(str, <<"&">>, Lit(EntityAmp, "x"))
        s2 == ReplaceAll(s1, <<"<">>, Lit(EntityLt, "x"))
        s3 == ReplaceAll(s2, <<">">>, Lit(EntityGt, "x"))
        s4 == ReplaceAll(s3, <<"\"">>, Lit(EntityQuot, "x"))
    IN ReplaceAll(s4, <<"'">>, Lit(EntityApos, "x"))

\* ToBoolean
Truthy(v) ==
    CASE v.t \in {"undefined", "null"} -> FALSE
      [] v.t = "number" -> v.n # 0
      [] v.t = "string" -> v.s # <<>>
      [] OTHER -> TRUE

\* String(v) for a truthy value v.
StringOf(v) ==
    CASE v.t = "string" -> v.s
      [] v.t = "number" -> Lit(NumChars(v.n), "p")
      [] v.t = "array" -> JoinComma([i \in 1..Len(v.kv) |-> Lit(NumChars(v.kv[i].n), "p")])
      [] OTHER -> Lit(<<"[", "o", "b", "j", "e", "c", "t", " ",
                        "O", "b", "j", "e", "c", "t", "]">>, "x")

\* props[k]: undefined when the bag does not hold k.
GetProp(props, k) == IF HasOwn(props.e, k) THEN GetOwn(props.e, k).v ELSE VUndef

KeyTitle == <<"t", "i", "t", "l", "e">>
KeyDescription == <<"d", "e", "s", "c", "r", "i", "p", "t", "i", "o", "n">>

TokenContent == <<"{", "{", "c", "o", "n", "t", "e", "n", "t", "}", "}">>
TokenTitle == <<"{", "{", "t", "i", "t", "l", "e", "}", "}">>
TokenDescription ==
    <<"{", "{", "d", "e", "s", "c", "r", "i", "p", "t", "i", "o", "n", "}", "}">>
CloseHead == <<"<", "/", "h", "e", "a", "d", ">">>

DefaultTitle == <<"D", "o", "m", "a", "i", "n", "E", "x", " ", "S", "S", "R">>
DefaultDescription ==
    <<"S", "e", "r", "v", "e", "r", "-", "s", "i", "d", "e", " ",
      "r", "e", "n", "d", "e", "r", "e", "d", " ", "w", "i", "t", "h", " ",
      "D", "o", "m", "a", "i", "n", "E", "x">>

\* A variant of TitleText: the title of the props is not looked at.
TitleTextAlwaysDefault(props) == Lit(DefaultTitle, "x")

\* props.title || "DomainEx SSR", as the string _escapeHtml works on.
TitleText(props) ==
    LET v == GetProp(props, KeyTitle)
    IN IF Truthy(v) THEN StringOf(v) ELSE Lit(DefaultTitle, "x")

DescriptionText(props) ==
    LET v == GetProp(props, KeyDescription)
    IN IF Truthy(v) THEN StringOf(v) ELSE Lit(DefaultDescription, "x")

ScriptOpen ==
    <<"<", "s", "c", "r", "i", "p", "t", ">", "w", "i", "n", "d", "o", "w", ".",
      "_", "_", "D", "O", "M", "A", "I", "N", "E", "X", "_", "P", "R", "O", "P", "S",
      "_", "_", "=">>
ScriptClose == <<";", "<", "/", "s", "c", "r", "i", "p", "t", ">">>
UnicodeLt == <<"\\", "u", "0", "0", "3", "c">>

\* JSON.stringify(props).replace(/</g, "\\u003c")
SafeProps(props) == ReplaceAll(JsonStringify(props), <<"<">>, Lit(UnicodeLt, "x"))

PropsScript(props) == Lit(ScriptOpen, "x") \o SafeProps(props) \o Lit(ScriptClose, "x")

\* _applyTemplate, with this.template passed as its first argument.
_applyTemplate(template, content, props) ==
    LET h1 == ReplaceFirst(template, TokenContent, content)
        h2 == ReplaceAll(h1, TokenTitle, _escapeHtml(TitleText(props)))
        h3 == ReplaceAll(h2, TokenDescription, _escapeHtml(DescriptionText(props)))
    IN ReplaceFirst(h3, CloseHead,
                    PropsScript(props) \o Lit(<<"\n">>, "x") \o Lit(CloseHead, "x"))

\* ------------------------------------------------------------------ modules

(***************************************************************************)
(* The shape of what require() returns for a component file, as far as the *)
(* detector and the adapters look at it.  kind is the value's kind; fn     *)
(* holds name and displayName when the value is a function (a missing      *)
(* displayName and an empty one are both <<>>: the code reads it as        *)
(* displayName || ""); ret is what calling it yields; render and default   *)
(* are the members of that name.                                           *)
(***************************************************************************)
NoFn == [name |-> <<>>, displayName |-> <<>>]
NoRet == [k |-> "undefined", s |-> <<>>]
NoMember == [t |-> "undefined", truthy |-> FALSE, fn |-> NoFn, ret |-> NoRet]

FnMember(fn, ret) == [t |-> "function", truthy |-> TRUE, fn |-> fn, ret |-> ret]
ValMember(t, truthy) == [t |-> t, truthy |-> truthy, fn |-> NoFn, ret |-> NoRet]

Mod(kind, truthy, fn, ret, render, default) ==
    [kind |-> kind, truthy |-> truthy, fn |-> fn, ret |-> ret,
     render |-> render, default |-> default]

\* typeof mod
TypeofMod(mod) == IF mod.kind = "null" THEN "object" ELSE mod.kind

\* typeof mod[member]; reading a member of null or undefined throws.
TypeofMember(mod, member) ==
    IF mod.kind \in {"null", "undefined"} THEN "TypeError"
    ELSE IF mod.kind \in {"object", "function"} THEN mod[member].t
    ELSE "undefined"

UpperAscii ==
    {"A", "B", "C", "D", "E", "F", "G", "H", "I", "J", "K", "L", "M",
     "N", "O", "P", "Q", "R", "S", "T", "U", "V", "W", "X", "Y", "Z"}

\* /^[A-Z]/.test(s)
StartsUpper(str) == str # <<>> /\ str[1] \in UpperAscii

\* A variant of LooksLikeReact: only the name is tested.
LooksLikeReactByName(fn) == StartsUpper(fn.name)

\* /^[A-Z]/.test(fn.name || "") || /^[A-Z]/.test(fn.displayName || "")
LooksLikeReact(fn) == StartsUpper(fn.name) \/ StartsUpper(fn.displayName)

\* A variant of IsObjectMod: typeof alone, without the check that mod is truthy.
IsObjectModUnguarded(mod) == TypeofMod(mod) = "object"

\* mod && typeof mod === "object"
IsObjectMod(mod) == mod.truthy /\ TypeofMod(mod) = "object"

\* _detectFramework: the tag, or "TypeError" when evaluating it throws.
_detectFramework(mod) ==
    LET tRender == IF IsObjectMod(mod) THEN TypeofMember(mod, "render") ELSE "skipped"
        tDefault == IF IsObjectMod(mod) THEN TypeofMember(mod, "default") ELSE "skipped"
    IN IF tRender = "TypeError" THEN "TypeError"
       ELSE IF tRender = "function" THEN "vue"
       ELSE IF TypeofMod(mod) = "function"
            THEN (IF LooksLikeReact(mod.fn) THEN "react" ELSE "vanilla")
       ELSE IF tDefault = "TypeError" THEN "TypeError"
       ELSE IF tDefault = "function"
            THEN (IF LooksLikeReact(mod.default.fn) THEN "react" ELSE "vanilla")
       ELSE "vanilla"

\* _unwrapDefault: the component an adapter works on, with the member it came from.
_unwrapDefault(mod) ==
    IF IsObjectMod(mod) /\ mod.default.truthy
    THEN [from |-> "default", t |-> mod.default.t, fn |-> mod.default.fn,
          ret |-> mod.default.ret]
    ELSE [from |-> "self", t |-> TypeofMod(mod), fn |-> mod.fn, ret |-> mod.ret]

\* ----------------------------------------------------------------- adapters

(***************************************************************************)
(* What an adapter call comes to: ok with the fragment, or the error it    *)
(* throws.  ret.k says what the component yields when it is called:        *)
(* "string" (the text ret.s), "number", "undefined", or "throw".           *)
(***************************************************************************)
AdapterOk(content) == [ok |-> TRUE, content |-> content, err |-> "none"]
AdapterErr(err) == [ok |-> FALSE, content |-> <<>>, err |-> err]

\* A variant of NotAString: every value a component returns passes for a string.
NeverNotAString(ret) == FALSE

\* typeof html !== "string"
NotAString(ret) == ret.k # "string"

_renderVanilla(mod, props) ==
    LET fn == _unwrapDefault(mod)
    IN IF fn.t # "function" THEN AdapterErr("NotAFunction")
       ELSE IF fn.ret.k = "throw" THEN AdapterErr("RenderError")
       ELSE IF NotAString(fn.ret) THEN AdapterErr("TypeContract")
       ELSE AdapterOk(Lit(fn.ret.s, "f"))

\* ReactDOMServer.renderToString(React.createElement(Component, props)): the
\* library renders a function component that yields markup and throws otherwise.
_renderReact(mod, props) ==
    LET Component == _unwrapDefault(mod)
    IN IF Component.t = "function" /\ Component.ret.k = "string"
       THEN AdapterOk(Lit(Component.ret.s, "f"))
       ELSE AdapterErr("RenderError")

\* renderToString(createSSRApp({render: () => h(component, props)})): the library
\* renders a component record through its render member and a function
\* component through its call; anything else makes it throw.
_renderVue(mod, props) ==
    LET component == _unwrapDefault(mod)
    IN IF component.from = "self" /\ mod.kind = "object" /\ mod.render.t = "function"
          /\ mod.render.ret.k = "string"
       THEN AdapterOk(Lit(mod.render.ret.s, "f"))
       ELSE IF component.t = "function" /\ component.ret.k = "string"
       THEN AdapterOk(Lit(component.ret.s, "f"))
       ELSE AdapterErr("RenderError")

\* The dispatch of render on the framework tag.
RenderWith(framework, mod, props) ==
    IF framework = "react" THEN _renderReact(mod, props)
    ELSE IF framework = "vue" THEN _renderVue(mod, props)
    ELSE _renderVanilla(mod, props)

\* ------------------------------------------------------------------- bounds

\* The number of render calls made on the instance.
NumCalls == 2
\* The clock (Date.now()) runs from 0 to MaxNow.
MaxNow == 2
\* How often the files on disk change while the instance lives.
MaxFsChanges == 1
\* this.options.cacheMaxAge, in ticks of the clock.
CacheMaxAge == 1

\* ------------------------------------------------------ the files on disk

NameHome == <<"H", "o", "m", "e">>
NameBad == <<"B", "a", "d">>
NameMissing == <<"M", "i", "s", "s">>

FnHome == [name |-> <<"h", "o", "m", "e">>, displayName |-> <<>>]
FnBad == [name |-> <<"b", "a", "d">>, displayName |-> <<>>]

\* dist/Home.js: module.exports = function home(props) { return "hi"; }
ModHome == Mod("function", TRUE, FnHome, [k |-> "string", s |-> <<"h", "i">>],
               NoMember, NoMember)
\* dist/Home.js after a rebuild: it returns "yo".
ModHome2 == Mod("function", TRUE, FnHome, [k |-> "string", s |-> <<"y", "o">>],
                NoMember, NoMember)
\* dist/Bad.js: module.exports = function bad(props) { return 42; }
ModBad == Mod("function", TRUE, FnBad, [k |-> "number", s |-> <<>>], NoMember, NoMember)

\* A file of the dist directory: its name without extension, whether it ends
\* in ".js", whether require() of it throws, and what require() returns.
JsFile(name, mod) == [name |-> name, js |-> TRUE, broken |-> FALSE, mod |-> mod]
BrokenJsFile(name) == [name |-> name, js |-> TRUE, broken |-> TRUE, mod |-> ModBad]
OtherFile(name) == [name |-> name, js |-> FALSE, broken |-> FALSE, mod |-> ModBad]

DistMissing == [exists |-> FALSE, files |-> {}]
DistA == [exists |-> TRUE,
          files |-> {JsFile(NameHome, ModHome), JsFile(NameBad, ModBad),
                     OtherFile(<<"m", "a", "p">>)}]
DistB == [exists |-> TRUE,
          files |-> {JsFile(NameHome, ModHome2)}]
\* dist/Bad.js after a rebuild: module.exports = function bad(props) { throw ... }
ModThrows == Mod("function", TRUE, FnBad, [k |-> "throw", s |-> <<>>], NoMember, NoMember)
DistC == [exists |-> TRUE,
          files |-> {JsFile(NameHome, ModHome), JsFile(NameBad, ModThrows)}]
\* A build whose second file throws when it is required.
DistBroken == [exists |-> TRUE,
               files |-> {JsFile(NameHome, ModHome), BrokenJsFile(NameBad)}]
DistStates == {DistMissing, DistA, DistB, DistC, DistBroken}

\* The template file: one of two texts, or unreadable.  The state names a text
\* ("A", "B"); TemplateText is the text.
TemplateA == Lit(TokenTitle \o CloseHead \o TokenContent, "t")
TemplateB == Lit(CloseHead \o TokenContent \o TokenDescription, "t")
Unreadable == "ENOENT"

TemplateFiles == {"A", "B", Unreadable}

TemplateText(id) == IF id = "A" THEN TemplateA ELSE TemplateB

PropsEmpty == Rec(<<>>)
PropsTitle == Rec(<<[k |-> KeyTitle, v |-> VStr(<<"a", "&">>)]>>)

\* The arguments of the render calls.
CallArgs == {<<NameHome, PropsEmpty>>, <<NameHome, PropsTitle>>,
             <<NameBad, PropsEmpty>>, <<NameMissing, PropsEmpty>>}

Calls == 1..NumCalls

\* -------------------------------------------------------------------- state

VARIABLES
    options,        \* this.options: cache, cacheMaxAge, hotReload
    template,       \* this.template
    isInitialized,  \* this.isInitialized
    cache,          \* this.cache: key -> [html, ts]
    componentMap,   \* this.componentMap: name -> [module, framework]
    fsTemplate,     \* the template file on disk
    fsDist,         \* the dist directory on disk
    now,            \* Date.now()
    calls,          \* the render calls: where each stands, its locals, its outcome
    hist,           \* ghost: counters of what the instance did
    fin, fout, fpc  \* the argument, result and position of a function under test

renderVars == <<options, template, isInitialized, cache, componentMap,
                fsTemplate, fsDist, now, calls, hist>>
pureVars == <<fin, fout, fpc>>
vars == <<renderVars, pureVars>>

NullTemplate == "null"

\* A document is held as the arguments _applyTemplate was called with; DocText
\* is the document, the text _applyTemplate returns for them.  MakeDocStamped
\* is a variant of MakeDoc: a document that carries the time it was made at.
NoDoc == [none |-> TRUE, template |-> NullTemplate, content |-> <<>>, props |-> PropsEmpty]
MakeDocStamped(tpl, content, props) ==
    [none |-> FALSE, template |-> tpl,
     content |-> content \o Lit(NumChars(now), "x"), props |-> props]
MakeDoc(tpl, content, props) ==
    [none |-> FALSE, template |-> tpl, content |-> content, props |-> props]
DocText(doc) == _applyTemplate(TemplateText(doc.template), doc.content, doc.props)

NoKey == <<"nokey", <<>>>>
NoPend == AdapterErr("none")
NoLookup == [did |-> FALSE, found |-> FALSE, age |-> 0, ts |-> 0, html |-> NoDoc]
EmptyMap == <<>>

IdleCall ==
    [pc |-> "idle", op |-> "render", ctx |-> "none", name |-> <<>>, props |-> PropsEmpty,
     key |-> NoKey, pend |-> NoPend, result |-> NoDoc, err |-> "none",
     \* ghost fields: what this call did
     lookup |-> NoLookup, resolved |-> FALSE, absent |-> FALSE,
     adapterCalls |-> 0, applyCalls |-> 0, plainNonString |-> FALSE,
     stored |-> FALSE, storeTs |-> 0, cleared |-> FALSE, prev |-> {},
     reloads |-> 0, tplAtCall |-> NullTemplate,
     \* ghost: the call had been made when clearCache last ran
     beforeClear |-> FALSE]

PureIdle == fin = <<>> /\ fout = <<>> /\ fpc = "off"

Init ==
    /\ options \in [cache : BOOLEAN, cacheMaxAge : {CacheMaxAge}, hotReload : BOOLEAN]
    /\ template = NullTemplate
    /\ isInitialized = FALSE
    /\ cache = EmptyMap
    /\ componentMap = EmptyMap
    /\ fsTemplate = "A"
    /\ fsDist = DistA
    /\ now = 0
    /\ calls = [c \in Calls |-> IdleCall]
    /\ hist = [inits |-> 0, tplLoads |-> 0, fsChanges |-> 0]
    /\ PureIdle

\* ------------------------------------------------------------------- render

\* this.cache.get(key) / this.componentMap.get(name): undefined when absent.
UndefinedCached == [html |-> NoDoc, ts |-> 0, undefined |-> TRUE]
ModUndefined == Mod("undefined", FALSE, NoFn, NoRet, NoMember, NoMember)
UndefinedEntry == [module |-> ModUndefined, framework |-> "undefined"]

MapGet(map, k, undefined) == IF k \in DOMAIN map THEN map[k] ELSE undefined

\* A variant of MapSet: a key that is present keeps its value.
MapSetIfAbsent(map, k, v) ==
    [x \in DOMAIN map \cup {k} |-> IF x \in DOMAIN map THEN map[x] ELSE v]

\* Map.prototype.set
MapSet(map, k, v) == [x \in DOMAIN map \cup {k} |-> IF x = k THEN v ELSE map[x]]

\* A variant of CacheHit: render never takes the cached document.
CacheNeverHit(cached, t, maxAge) == FALSE

\* A variant of CacheHit: an entry exactly cacheMaxAge old still counts as fresh.
CacheHitAtMaxAge(cached, t, maxAge) == ~cached.undefined /\ t - cached.ts <= maxAge

\* cached && Date.now() - cached.ts < this.options.cacheMaxAge
CacheHit(cached, t, maxAge) == ~cached.undefined /\ t - cached.ts < maxAge

\* A variant of EntryAbsent: render does not check the registry entry.
EntryNeverAbsent(entry) == FALSE

\* !entry
EntryAbsent(entry) == entry.framework = "undefined"

\* A variant of Fail: the error is noted and the call stays where it is.
FailKeepsWaiting(call, err) == [call EXCEPT !.err = err]

\* throw: the call ends with the error.
Fail(call, err) == [call EXCEPT !.pc = "failed", !.err = err]

\* _loadComponents from the readdir result on: the .js files are required and
\* classified into nextMap, which replaces this.componentMap only at the end.
\* partial is nextMap as it stands when a file throws: the files that loaded.
LoadComponents(dist) ==
    LET jsFiles == {f \in dist.files : f.js}
        throws(f) == f.broken \/ _detectFramework(f.mod) = "TypeError"
        fileOf(n) == CHOOSE f \in jsFiles : f.name = n
        mapOf(names) == [n \in names |->
                           [module |-> fileOf(n).mod,
                            framework |-> _detectFramework(fileOf(n).mod)]]
    IN IF \E f \in jsFiles : throws(f)
       THEN [ok |-> FALSE, map |-> EmptyMap,
             partial |-> mapOf({f.name : f \in {g \in jsFiles : ~throws(g)}})]
       ELSE [ok |-> TRUE, map |-> mapOf({f.name : f \in jsFiles}),
             partial |-> EmptyMap]

\* this._cacheKey(componentName, props) as render calls it: the fingerprints of
\* the arguments the calls are made with are computed once.
CallKeys == [args \in CallArgs |-> _cacheKey(args[1], args[2])]
CallKey(componentName, props) ==
    IF <<componentName, props>> \in CallArgs
    THEN CallKeys[<<componentName, props>>]
    ELSE _cacheKey(componentName, props)

\* render, lines 55 to 81: the fingerprint, the cache lookup, the registry
\* lookup and the call of the adapter, up to the await of its result.
RenderBody(call, cmap, cch, t, opts) ==
    LET key == CallKey(call.name, call.props)
        cached == MapGet(cch, key, UndefinedCached)
        look == IF opts.cache
                THEN [did |-> TRUE, found |-> key \in DOMAIN cch,
                      age |-> IF key \in DOMAIN cch THEN t - cached.ts ELSE 0,
                      ts |-> cached.ts, html |-> cached.html]
                ELSE NoLookup
        c1 == [call EXCEPT !.key = key, !.lookup = look]
        entry == MapGet(cmap, call.name, UndefinedEntry)
        c2 == [c1 EXCEPT !.resolved = TRUE, !.absent = call.name \notin DOMAIN cmap]
        comp == _unwrapDefault(entry.module)
    IN IF opts.cache /\ CacheHit(cached, t, opts.cacheMaxAge)
       THEN [c1 EXCEPT !.pc = "done", !.result = cached.html]
       ELSE IF EntryAbsent(entry) THEN Fail(c2, "NotFound")
       ELSE [c2 EXCEPT !.pc = "adapter_wait",
                       !.pend = RenderWith(entry.framework, entry.module, call.props),
                       !.adapterCalls = @ + 1,
                       !.plainNonString =
                           /\ entry.framework \notin {"react", "vue"}
                           /\ comp.t = "function"
                           /\ comp.ret.k \notin {"string", "throw"}]

\* A variant of AfterInitialize: with hotReload render reads the template file
\* again before it loads the registry again.
AfterInitializeReadsTemplate(call, cmap, cch, t, opts, dist) ==
    IF opts.hotReload
    THEN [call EXCEPT !.pc = "tpl_read", !.ctx = "hot"]
    ELSE RenderBody(call, cmap, cch, t, opts)

\* A variant of AfterInitialize: render does not look at hotReload.
AfterInitializeNoReload(call, cmap, cch, t, opts, dist) ==
    RenderBody(call, cmap, cch, t, opts)

\* render, lines 50 to 53, and on: with hotReload the registry is loaded again
\* (existsSync, then the readdir that is awaited) before the rest runs.
AfterInitialize(call, cmap, cch, t, opts, dist) ==
    IF opts.hotReload
    THEN (IF ~dist.exists THEN Fail(call, "LoadError")
          ELSE [call EXCEPT !.pc = "dir_read", !.ctx = "hot"])
    ELSE RenderBody(call, cmap, cch, t, opts)

\* render(componentName, props) is called: an instance that is not initialized
\* starts initialize(), whose _loadTemplate starts to read the template file.
StartRender(c, name, props) ==
    LET k == _cacheKey(name, props)
        c0 == [IdleCall EXCEPT
                 !.name = name, !.props = props, !.tplAtCall = fsTemplate,
                 !.prev = {a \in Calls :
                             /\ calls[a].pc = "done" /\ calls[a].stored
                             /\ ~calls[a].cleared /\ calls[a].key = k
                             /\ now - calls[a].storeTs < options.cacheMaxAge}]
    IN calls' = [calls EXCEPT ![c] =
                   IF ~isInitialized
                   THEN [c0 EXCEPT !.pc = "tpl_read", !.ctx = "init"]
                   ELSE AfterInitialize(c0, componentMap, cache, now, options, fsDist)]

Start(c) ==
    /\ calls[c].pc = "idle"
    /\ \A d \in Calls : d < c => calls[d].pc # "idle"
    /\ \E args \in CallArgs : StartRender(c, args[1], args[2])
    /\ UNCHANGED <<options, template, isInitialized, cache, componentMap,
                   fsTemplate, fsDist, now, hist, pureVars>>

\* initialize() is called by the application itself: it returns at once on an
\* initialized instance and loads the template and the registry otherwise.
StartInitialize(c) ==
    /\ calls[c].pc = "idle"
    /\ \A d \in Calls : d < c => calls[d].pc # "idle"
    /\ calls' = [calls EXCEPT ![c] =
                   IF isInitialized
                   THEN [IdleCall EXCEPT !.op = "initialize", !.pc = "done"]
                   ELSE [IdleCall EXCEPT !.op = "initialize", !.pc = "tpl_read",
                                         !.ctx = "init"]]
    /\ UNCHANGED <<options, template, isInitialized, cache, componentMap,
                   fsTemplate, fsDist, now, hist, pureVars>>

\* The read of the template file completes: _loadTemplate stores the text and
\* initialize goes on to _loadComponents (existsSync, then readdir).
TemplateRead(c) ==
    /\ calls[c].pc = "tpl_read"
    /\ IF fsTemplate = Unreadable
       THEN /\ calls' = [calls EXCEPT ![c] = Fail(@, "LoadError")]
            /\ UNCHANGED <<template, hist>>
       ELSE /\ template' = fsTemplate
            /\ hist' = [hist EXCEPT !.tplLoads = @ + 1]
            /\ calls' = [calls EXCEPT ![c] =
                           IF ~fsDist.exists THEN Fail(@, "LoadError")
                           ELSE [@ EXCEPT !.pc = "dir_read"]]
    /\ UNCHANGED <<options, isInitialized, cache, componentMap, fsTemplate, fsDist, now, pureVars>>

\* What _loadComponents makes of each state of the dist directory, computed once.
Loaded == [d \in DistStates |-> LoadComponents(d)]

\* A variant of LoadOutcome: a load that failed counts as done.
LoadOutcomeAlwaysOk(dist, r) == TRUE

\* Whether _loadComponents ran to its end: the directory was read and every
\* file was required.
LoadOutcome(dist, r) == dist.exists /\ r.ok

\* A variant of RegistryAfterLoad: the files are set into the registry as they
\* load, so a load that throws leaves behind the ones that loaded.
RegistryFilledInPlace(old, loaded, r) == IF loaded THEN r.map ELSE r.partial

\* this.componentMap after _loadComponents: nextMap replaces it at line 195,
\* which a load that threw does not reach.
RegistryAfterLoad(old, loaded, r) == IF loaded THEN r.map ELSE old

\* The readdir of _loadComponents completes.  Within initialize the instance
\* becomes initialized and render goes on; within a hot reload render goes on.
DirRead(c) ==
    /\ calls[c].pc = "dir_read"
    /\ LET r == Loaded[fsDist]
           call == [calls[c] EXCEPT !.reloads = @ + 1]
           loaded == LoadOutcome(fsDist, r)
       IN IF ~loaded
          THEN /\ calls' = [calls EXCEPT ![c] = Fail(@, "LoadError")]
               /\ componentMap' = RegistryAfterLoad(componentMap, loaded, r)
               /\ UNCHANGED <<isInitialized, hist>>
          ELSE /\ componentMap' = RegistryAfterLoad(componentMap, loaded, r)
               /\ IF call.ctx = "init"
                  THEN /\ isInitialized' = TRUE
                       /\ hist' = [hist EXCEPT !.inits = @ + 1]
                       /\ calls' = [calls EXCEPT ![c] =
                                      IF call.op = "initialize"
                                      THEN [call EXCEPT !.pc = "done"]
                                      ELSE AfterInitialize(call, r.map, cache, now,
                                                           options, fsDist)]
                  ELSE /\ calls' = [calls EXCEPT ![c] =
                                      RenderBody(call, r.map, cache, now, options)]
                       /\ UNCHANGED <<isInitialized, hist>>
    /\ UNCHANGED <<options, template, cache, fsTemplate, fsDist, now, pureVars>>

\* A variant of CacheAfterAdapter: the document is stored before the adapter's
\* outcome is looked at.
CacheStoredBeforeOutcome(cch, opts, call, html, t) ==
    IF opts.cache
    THEN [x \in DOMAIN cch \cup {call.key} |->
            IF x = call.key THEN [html |-> html, ts |-> t, undefined |-> FALSE]
            ELSE cch[x]]
    ELSE cch

\* A variant of CacheAfterAdapter: the document is stored whatever the cache
\* option says.
CacheStoredWhateverOption(cch, opts, call, html, t) ==
    IF call.pend.ok
    THEN [x \in DOMAIN cch \cup {call.key} |->
            IF x = call.key THEN [html |-> html, ts |-> t, undefined |-> FALSE]
            ELSE cch[x]]
    ELSE cch

\* A variant of CacheAfterAdapter: an adapter that threw takes the cache with it.
CacheFlushedOnFailure(cch, opts, call, html, t) ==
    IF call.pend.ok /\ opts.cache
    THEN [x \in DOMAIN cch \cup {call.key} |->
            IF x = call.key THEN [html |-> html, ts |-> t, undefined |-> FALSE]
            ELSE cch[x]]
    ELSE EmptyMap

\* A variant of CacheAfterAdapter: an entry that is there, stale or not, stays.
CacheKeepsStale(cch, opts, call, html, t) ==
    IF call.pend.ok /\ opts.cache /\ call.key \notin DOMAIN cch
    THEN [x \in DOMAIN cch \cup {call.key} |->
            IF x = call.key THEN [html |-> html, ts |-> t, undefined |-> FALSE]
            ELSE cch[x]]
    ELSE cch

\* this.cache after the await of the adapter, lines 75 to 87: an adapter that
\* threw ends render before the store; the store is under options.cache.
CacheAfterAdapter(cch, opts, call, html, t) ==
    IF call.pend.ok /\ opts.cache
    THEN MapSet(cch, call.key, [html |-> html, ts |-> t, undefined |-> FALSE])
    ELSE cch

\* The adapter's result arrives: render, lines 83 to 89.
AdapterDone(c) ==
    /\ calls[c].pc = "adapter_wait"
    /\ LET call == calls[c]
           html == MakeDoc(template, call.pend.content, call.props)
       IN IF ~call.pend.ok
          THEN /\ calls' = [calls EXCEPT ![c] = Fail(@, call.pend.err)]
               /\ cache' = CacheAfterAdapter(cache, options, call, html, now)
          ELSE /\ cache' = CacheAfterAdapter(cache, options, call, html, now)
               /\ calls' = [calls EXCEPT ![c] =
                              [@ EXCEPT !.pc = "done", !.result = html,
                                        !.applyCalls = @ + 1,
                                        !.stored = options.cache, !.storeTs = now]]
    /\ UNCHANGED <<options, template, isInitialized, componentMap,
                   fsTemplate, fsDist, now, hist, pureVars>>

\* A clearCache that leaves the entries where they are.
CacheKeptOnClear(cch) == cch

\* this.cache.clear()
CacheAfterClear(cch) == EmptyMap

\* clearCache()
ClearCache ==
    /\ cache' = CacheAfterClear(cache)
    /\ calls' = [c \in Calls |-> [calls[c] EXCEPT
                                     !.cleared = calls[c].stored,
                                     !.beforeClear = calls[c].pc # "idle"]]
    /\ UNCHANGED <<options, template, isInitialized, componentMap,
                   fsTemplate, fsDist, now, hist, pureVars>>

\* Time passes.
Tick ==
    /\ now < MaxNow
    /\ now' = now + 1
    /\ UNCHANGED <<options, template, isInitialized, cache, componentMap,
                   fsTemplate, fsDist, calls, hist, pureVars>>

\* The files on disk change: a rebuild, an edit of the template, a removal.
ChangeFs ==
    /\ hist.fsChanges < MaxFsChanges
    /\ \E t \in TemplateFiles, d \in DistStates :
         /\ (t = fsTemplate) # (d = fsDist)
         /\ fsTemplate' = t
         /\ fsDist' = d
    /\ hist' = [hist EXCEPT !.fsChanges = @ + 1]
    /\ UNCHANGED <<options, template, isInitialized, cache, componentMap, now, calls, pureVars>>

Next ==
    \/ \E c \in Calls : Start(c)
    \/ \E c \in Calls : StartInitialize(c)
    \/ \E c \in Calls : TemplateRead(c)
    \/ \E c \in Calls : DirRead(c)
    \/ \E c \in Calls : AdapterDone(c)
    \/ ClearCache
    \/ Tick
    \/ ChangeFs

Spec == Init /\ [][Next]_vars

\* The reads of the file system complete: the readFile of _loadTemplate and the
\* readdir of _loadComponents are settled by the runtime, and the continuation
\* of the call that awaits them is run.  What an adapter awaits is the
\* component's and the renderer's own: nothing makes it complete.
ReadsComplete ==
    \A c \in Calls : WF_vars(TemplateRead(c)) /\ WF_vars(DirRead(c))

\* The calls and the file system, without the clock and clearCache, which
\* neither start nor end a call.
NextLive ==
    \/ \E c \in Calls : Start(c)
    \/ \E c \in Calls : StartInitialize(c)
    \/ \E c \in Calls : TemplateRead(c)
    \/ \E c \in Calls : DirRead(c)
    \/ \E c \in Calls : AdapterDone(c)
    \/ ChangeFs

SpecLive == Init /\ [][NextLive]_vars /\ ReadsComplete

\* ------------------------------------------- the functions taken on their own

(***************************************************************************)
(* The specifications below apply one function of the code to an argument  *)
(* drawn from a bounded set: fin is the argument, fout the result.  The    *)
(* instance itself stays as constructed.                                   *)
(***************************************************************************)
RenderIdle ==
    /\ options = [cache |-> TRUE, cacheMaxAge |-> CacheMaxAge, hotReload |-> FALSE]
    /\ template = NullTemplate
    /\ isInitialized = FALSE
    /\ cache = EmptyMap
    /\ componentMap = EmptyMap
    /\ fsTemplate = "A"
    /\ fsDist = DistA
    /\ now = 0
    /\ calls = [c \in Calls |-> IdleCall]
    /\ hist = [inits |-> 0, tplLoads |-> 0, fsChanges |-> 0]

\* --- _detectFramework

FnNames == {<<>>, <<"A", "p", "p">>, <<"a", "p", "p">>, <<"_", "Z">>}
FnShapes == [name : FnNames, displayName : FnNames]
FnAny == [name |-> <<"a", "p", "p">>, displayName |-> <<>>]

Artifacts ==
    {Mod("undefined", FALSE, NoFn, NoRet, NoMember, NoMember),
     Mod("null", FALSE, NoFn, NoRet, NoMember, NoMember)}
    \cup {Mod(k, b, NoFn, NoRet, NoMember, NoMember) :
            k \in {"boolean", "number", "string"}, b \in BOOLEAN}
    \cup {Mod("function", TRUE, fn, NoRet, r, d) :
            fn \in FnShapes,
            r \in {NoMember, FnMember(FnAny, NoRet)},
            d \in {NoMember, FnMember([name |-> <<"A", "p", "p">>, displayName |-> <<>>],
                                      NoRet)}}
    \cup {Mod("object", TRUE, NoFn, NoRet, r, d) :
            r \in {NoMember, FnMember(FnAny, NoRet), ValMember("string", TRUE),
                   ValMember("object", TRUE)},
            d \in {NoMember, ValMember("object", TRUE), ValMember("number", FALSE)}
                    \cup {FnMember(fn, NoRet) : fn \in FnShapes}}

InitDetect == fin \in Artifacts /\ fout = <<>> /\ fpc = "detect" /\ RenderIdle

Detect ==
    /\ fpc = "detect"
    /\ fout' = _detectFramework(fin)
    /\ fpc' = "detected"
    /\ UNCHANGED <<fin, renderVars>>

SpecDetect == InitDetect /\ [][Detect]_vars

\* --- an artifact from its load to its adapter

InitAdapt == fin \in Artifacts /\ fout = <<>> /\ fpc = "adapt" /\ RenderIdle

\* _loadComponents classifies what require() returned (line 190); render hands
\* the artifact to the adapter of that tag (lines 75 to 81), which unwraps it.
Adapt ==
    /\ fpc = "adapt"
    /\ LET framework == _detectFramework(fin)
       IN fout' = [framework |-> framework,
                   component |-> _unwrapDefault(fin),
                   result |-> IF framework = "TypeError" THEN NoPend
                              ELSE RenderWith(framework, fin, PropsEmpty)]
    /\ fpc' = "adapted"
    /\ UNCHANGED <<fin, renderVars>>

SpecAdapt == InitAdapt /\ [][Adapt]_vars

\* --- _cacheKey

BagKeys == {<<"a">>, <<"b">>, <<"0">>}
BagValues == {VNum(1), VUndef, VArr(<<1>>)}
\* The longest property bag.
MaxBag == 2

\* The records of up to MaxBag entries with distinct keys, in every insertion
\* order, and the arrays of up to one element.
RecordEntries ==
    {e \in UNION {[1..n -> [k : BagKeys, v : BagValues]] : n \in 0..MaxBag} :
        \A i, j \in 1..Len(e) : i # j => e[i].k # e[j].k}
Bags == {Rec(e) : e \in RecordEntries}
            \cup {Arr(<<>>)} \cup {Arr(<<v>>) : v \in BagValues}

KeyNames == {NameHome, NameBad}

InitKey ==
    /\ fin \in [n1 : KeyNames, n2 : KeyNames, p1 : Bags, p2 : Bags]
    /\ (fin.n1 = fin.n2 \/ fin.p1 = fin.p2)
    /\ fout = <<>>
    /\ fpc = "key"
    /\ RenderIdle

Key ==
    /\ fpc = "key"
    /\ fout' = [k1 |-> _cacheKey(fin.n1, fin.p1), k2 |-> _cacheKey(fin.n2, fin.p2)]
    /\ fpc' = "keyed"
    /\ UNCHANGED <<fin, renderVars>>

SpecKey == InitKey /\ [][Key]_vars

\* --- _cacheKey of bags that hold records

NestedA1B2 == VObj(<<[k |-> <<"a">>, n |-> 1], [k |-> <<"b">>, n |-> 2]>>)
NestedB2A1 == VObj(<<[k |-> <<"b">>, n |-> 2], [k |-> <<"a">>, n |-> 1]>>)
NestedA1 == VObj(<<[k |-> <<"a">>, n |-> 1]>>)
NestedValues == {VNum(1), NestedA1B2, NestedB2A1, NestedA1}

NestedEntries ==
    {e \in UNION {[1..n -> [k : {<<"a">>, <<"b">>}, v : NestedValues]] : n \in 0..MaxBag} :
        \A i, j \in 1..Len(e) : i # j => e[i].k # e[j].k}
NestedBags == {Rec(e) : e \in NestedEntries}

InitNested ==
    /\ fin \in [n1 : KeyNames, n2 : KeyNames, p1 : NestedBags, p2 : NestedBags]
    /\ fin.n1 = fin.n2
    /\ fout = <<>>
    /\ fpc = "key"
    /\ RenderIdle

SpecNested == InitNested /\ [][Key]_vars

\* --- _applyTemplate

TitleChars == {"&", "<", ">", "\"", "'", "$", Backtick, "a"}
\* The longest title.
MaxTitle == 2

Titles == UNION {[1..n -> TitleChars] : n \in 1..MaxTitle}

TemplateC == Lit(TokenTitle \o CloseHead \o <<">">> \o TokenTitle \o TokenContent, "t")
ApplyTemplates == {TemplateA, TemplateB, TemplateC}
Fragment == Lit(<<"h", "i">>, "f")

InitApply ==
    /\ fin \in [template : ApplyTemplates, title : Titles]
    /\ fout = <<>>
    /\ fpc = "apply"
    /\ RenderIdle

Apply ==
    /\ fpc = "apply"
    /\ fout' = _applyTemplate(fin.template, Fragment,
                              Rec(<<[k |-> KeyTitle, v |-> VStr(fin.title)]>>))
    /\ fpc' = "applied"
    /\ UNCHANGED <<fin, renderVars>>

SpecApply == InitApply /\ [][Apply]_vars

\* --- _renderVanilla and _applyTemplate on what a component returns

\* The texts a component returns are made of these pieces.
FragmentPieces ==
    {<<"a">>, <<"<", "p", ">">>, <<"$">>, <<"$", "$">>, <<"$", "&">>, <<"$", Backtick>>, <<"$", "'">>,
     TokenContent, TokenTitle, TokenDescription, CloseHead}
\* The most pieces in a returned text.
MaxPieces == 2

RECURSIVE Concat(_)
Concat(parts) == IF parts = <<>> THEN <<>> ELSE Head(parts) \o Concat(Tail(parts))

Fragments == {Concat(ps) : ps \in UNION {[1..n -> FragmentPieces] : n \in 1..MaxPieces}}

\* A template without </head>, with a second {{content}} token.
TemplateD == Lit(TokenTitle \o TokenContent \o TokenDescription \o TokenContent, "t")
PageTemplates == {TemplateA, TemplateB, TemplateC, TemplateD}

PropsNoTitle == Rec(<<[k |-> KeyDescription, v |-> VStr(<<"d", ">">>)]>>)
PropsEmptyTitle == Rec(<<[k |-> KeyTitle, v |-> VStr(<<>>)]>>)
PageProps == {PropsEmpty, PropsNoTitle, PropsTitle, PropsEmptyTitle}

\* module.exports = function page(props) { return text; }
ModReturning(text) ==
    Mod("function", TRUE, [name |-> <<"p", "a", "g", "e">>, displayName |-> <<>>],
        [k |-> "string", s |-> text], NoMember, NoMember)

InitPage ==
    /\ fin \in [template : PageTemplates, text : Fragments, props : PageProps]
    /\ fout = <<>>
    /\ fpc = "page"
    /\ RenderIdle

\* render, lines 79 to 83, for a component the registry holds as vanilla.
Page ==
    /\ fpc = "page"
    /\ LET content == _renderVanilla(ModReturning(fin.text), fin.props)
       IN fout' = IF content.ok
                  THEN _applyTemplate(fin.template, content.content, fin.props)
                  ELSE <<>>
    /\ fpc' = "paged"
    /\ UNCHANGED <<fin, renderVars>>

SpecPage == InitPage /\ [][Page]_vars

\* ------------------------------------------------------- the HTTP entry points

(***************************************************************************)
(* One request handled by the handler of createServer or by the handler    *)
(* createMiddleware returns.  fin is the request, fout the answer, and the *)
(* render call the handler awaits is call 1 of the render pipeline above.  *)
(* Characters of an error's text carry the tag "e".                        *)
(***************************************************************************)

\* An Error's message for each failure of render.
ErrMessage(kind, name) ==
    CASE kind = "NotFound" ->
           <<"C", "o", "m", "p", "o", "n", "e", "n", "t", " ", "\"">> \o name
             \o <<"\"", " ", "n", "o", "t", " ", "f", "o", "u", "n", "d">>
      [] kind = "TypeContract" -> <<"m", "u", "s", "t", " ", "r", "e", "t", "u", "r", "n">>
      [] kind = "LoadError" -> <<"E", "N", "O", "E", "N", "T">>
      [] OTHER -> <<"x", "<", "y">>

\* new Error(message): its stack names the message and the frames.
ErrorOf(kind, name) ==
    [kind |-> kind,
     stack |-> <<"E", "r", "r", "o", "r", ":", " ">> \o ErrMessage(kind, name)
                 \o <<"\n", "a", "t", " ", "<", "a", "n", "o", "n", ">">>,
     message |-> ErrMessage(kind, name)]
\* throw "<b>": a thrown value that is no Error has neither stack nor message.
ThrownString == [kind |-> "Thrown", stack |-> <<>>, message |-> <<>>]
ThrownStringText == <<"<", "b", ">", "&">>
NoError == [kind |-> "none", stack |-> <<>>, message |-> <<>>]

PageHead ==
    <<"<", "h", "1", ">", "S", "S", "R", " ", "E", "r", "r", "o", "r", "<", "/", "h", "1", ">",
      "<", "p", "r", "e", ">">>
PageTail == <<"<", "/", "p", "r", "e", ">">>

\* err?.stack || err?.message || String(err)
ErrorText(err) ==
    IF err.stack # <<>> THEN err.stack
    ELSE IF err.message # <<>> THEN err.message
    ELSE ThrownStringText

\* A variant of _errorPage: the text of the error goes into the page as it is.
_errorPageUnescaped(err) ==
    Lit(PageHead, "x") \o Lit(ErrorText(err), "e") \o Lit(PageTail, "x")

_errorPage(err) ==
    Lit(PageHead, "x") \o _escapeHtml(Lit(ErrorText(err), "e")) \o Lit(PageTail, "x")

\* routes[pathname] of the server, and the component each middleware is made for.
Paths == {"/home", "/bad", "/gone", "/none"}
RouteComponent(path) ==
    CASE path = "/home" -> NameHome
      [] path = "/bad" -> NameBad
      [] OTHER -> NameMissing
HasRoute(path) == path # "/none"

\* What the props function of the route, or the propsExtractor, does.
Extractors == {"returns", "throwsError", "throwsString"}

Requests ==
    {r \in [entry : {"server", "middleware"}, path : Paths, extractor : Extractors] :
        r.entry = "middleware" => HasRoute(r.path)}

NoAnswer ==
    [kind |-> "none", status |-> 0, body |-> <<>>, doc |-> NoDoc, next |-> NoError,
     thrown |-> NoError]

\* The instance when the request arrives: createServer has initialized it; a
\* middleware is handed out by an instance that may not have rendered yet.
InitHttp ==
    /\ fin \in Requests
    /\ fout = NoAnswer
    /\ fpc = "http.request"
    /\ options \in [cache : BOOLEAN, cacheMaxAge : {CacheMaxAge}, hotReload : BOOLEAN]
    /\ cache = EmptyMap
    /\ fsTemplate = "A"
    /\ fsDist = DistA
    /\ now = 0
    /\ calls = [c \in Calls |-> IdleCall]
    /\ IF fin.entry = "server"
       THEN /\ template = "A"
            /\ isInitialized = TRUE
            /\ componentMap = LoadComponents(DistA).map
            /\ hist = [inits |-> 1, tplLoads |-> 1, fsChanges |-> 0]
       ELSE /\ template = NullTemplate
            /\ isInitialized = FALSE
            /\ componentMap = EmptyMap
            /\ hist = [inits |-> 0, tplLoads |-> 0, fsChanges |-> 0]

\* The catch clause of the handler: the server answers 500 with the error
\* page, the middleware hands the error to next.
Caught(entry, err) ==
    IF entry = "server"
    THEN [NoAnswer EXCEPT !.kind = "page", !.status = 500, !.body = _errorPage(err),
                          !.thrown = err]
    ELSE [NoAnswer EXCEPT !.kind = "next", !.next = err, !.thrown = err]

\* The handler runs up to its await of render: the route is looked up, the
\* props are extracted, render is called.
HttpRequest ==
    /\ fpc = "http.request"
    /\ IF fin.entry = "server" /\ ~HasRoute(fin.path)
       THEN /\ fout' = [NoAnswer EXCEPT !.kind = "text", !.status = 404,
                                        !.body = Lit(<<"4", "0", "4">>, "x")]
            /\ fpc' = "http.answered"
            /\ UNCHANGED calls
       ELSE IF fin.extractor # "returns"
       THEN /\ fout' = Caught(fin.entry,
                              IF fin.extractor = "throwsError"
                              THEN ErrorOf("Extractor", <<>>) ELSE ThrownString)
            /\ fpc' = "http.answered"
            /\ UNCHANGED calls
       ELSE /\ StartRender(1, RouteComponent(fin.path), PropsEmpty)
            /\ fpc' = "http.render"
            /\ UNCHANGED fout
    /\ UNCHANGED <<fin, options, template, isInitialized, cache, componentMap,
                   fsTemplate, fsDist, now, hist>>

\* render has returned or thrown: the handler answers.
HttpAnswer ==
    /\ fpc = "http.render"
    /\ calls[1].pc \in {"done", "failed"}
    /\ fout' = IF calls[1].pc = "done"
               THEN [NoAnswer EXCEPT !.kind = "document", !.status = 200,
                                     !.doc = calls[1].result]
               ELSE Caught(fin.entry, ErrorOf(calls[1].err, calls[1].name))
    /\ fpc' = "http.answered"
    /\ UNCHANGED <<fin, renderVars>>

NextHttp ==
    \/ HttpRequest
    \/ \E c \in Calls : TemplateRead(c)
    \/ \E c \in Calls : DirRead(c)
    \/ \E c \in Calls : AdapterDone(c)
    \/ ChangeFs
    \/ HttpAnswer

SpecHttp == InitHttp /\ [][NextHttp]_vars

\* ------------------------------------- src/domainex.js: the framework option

(***************************************************************************)
(* The engine of src/domainex.js keeps the framework among its options and *)
(* renders what it loaded as source text.  One caller renders a list of    *)
(* component names, one call after the other: fin is the list, fout the    *)
(* record of the calls made so far.  The files are available.              *)
(***************************************************************************)
CodeReact == Lit(<<"R", "e", "a", "c", "t">>, "f")
CodeJsx == Lit(<<"j", "s", "x">>, "f")
CodeVue == Lit(<<"V", "u", "e">>, "f")
CodeVueLower == Lit(<<"v", "u", "e">>, "f")
CodeReactVue == Lit(<<"V", "u", "e", "R", "e", "a", "c", "t">>, "f")
CodePlain == Lit(<<"f", "n">>, "f")

\* The .js files of the dist folder: the name of each component and its code.
AutoDist ==
    (<<"r">> :> CodeReact) @@ (<<"j">> :> CodeJsx) @@ (<<"v">> :> CodeVue)
    @@ (<<"w">> :> CodeVueLower) @@ (<<"m">> :> CodeReactVue)
    @@ (<<"p">> :> CodePlain)

AutoNames == DOMAIN AutoDist \cup {NameMissing}

\* The most calls of one caller.
MaxRenders == 2

\* _autoDetectAndRender: the framework it finds in the code of a component.
AutoDetect(code) ==
    IF Contains(code, <<"R", "e", "a", "c", "t">>) \/ Contains(code, <<"j", "s", "x">>)
    THEN "react"
    ELSE IF Contains(code, <<"V", "u", "e">>) \/ Contains(code, <<"v", "u", "e">>)
    THEN "vue"
    ELSE "vanilla"

\* The framework option after one dispatch of render: _autoDetectAndRender
\* assigns what it detected to this.options.framework.
AutoAssign(framework, code) ==
    IF framework \in {"react", "vue", "vanilla"} THEN framework
    ELSE AutoDetect(code)

\* The switch of render: the renderer that runs for the component.
AutoRenderer(framework, code) ==
    IF framework \in {"react", "vue", "vanilla"} THEN framework
    ELSE AutoDetect(code)

\* _generateCacheKey with the props {}.
AutoCacheKey(name) == name \o <<":", "{", "}">>

\* What a renderer returns stands for itself: the renderer and the code it ran.
AutoContent(renderer, code) == [renderer |-> renderer, code |-> code]

\* _injectIntoTemplate, kept as its arguments.
AutoHtml(tpl, content) == [template |-> tpl, content |-> content]

AutoLog(name, renderer, outcome, framework) ==
    [name |-> name, renderer |-> renderer, outcome |-> outcome,
     framework |-> framework]

InitAuto ==
    /\ fin \in UNION {[1..n -> AutoNames] : n \in 1..MaxRenders}
    /\ fout = <<>>
    /\ fpc = "auto.idle"
    /\ options \in [cache : BOOLEAN, cacheMaxAge : {CacheMaxAge},
                    framework : {"auto"}]
    /\ template = NullTemplate
    /\ isInitialized = FALSE
    /\ cache = EmptyMap
    /\ componentMap = EmptyMap
    /\ fsTemplate = "A"
    /\ fsDist = DistA
    /\ now = 0
    /\ calls = [c \in Calls |-> IdleCall]
    /\ hist = [inits |-> 0, tplLoads |-> 0, fsChanges |-> 0]

\* render from the cache lookup to the await of the renderer, on an
\* initialized instance with the registry cmap.
AutoBody(name, cmap) ==
    LET key == AutoCacheKey(name)
        hit == /\ options.cache
               /\ key \in DOMAIN cache
               /\ now - cache[key].timestamp < options.cacheMaxAge
    IN IF hit
       THEN /\ fout' = Append(fout, AutoLog(name, "none", "cached", options.framework))
            /\ fpc' = "auto.idle"
            /\ UNCHANGED options
       ELSE IF name \notin DOMAIN cmap
       THEN /\ fout' = Append(fout, AutoLog(name, "none", "not found", options.framework))
            /\ fpc' = "auto.idle"
            /\ UNCHANGED options
       ELSE /\ fout' = Append(fout,
                              AutoLog(name, AutoRenderer(options.framework, cmap[name]),
                                      "rendering", options.framework))
            /\ options' = [options EXCEPT
                             !.framework = AutoAssign(options.framework, cmap[name])]
            /\ fpc' = "auto.render"

\* render is called with the next name of the list.
AutoStart ==
    /\ fpc = "auto.idle"
    /\ Len(fout) < Len(fin)
    /\ IF isInitialized
       THEN AutoBody(fin[Len(fout) + 1], componentMap)
       ELSE fpc' = "auto.init" /\ UNCHANGED <<fout, options>>
    /\ UNCHANGED <<fin, template, isInitialized, cache, componentMap,
                   fsTemplate, fsDist, now, calls, hist>>

\* initialize has loaded the template and the components; render goes on.
AutoInitialized ==
    /\ fpc = "auto.init"
    /\ template' = TemplateText(fsTemplate)
    /\ componentMap' = AutoDist
    /\ isInitialized' = TRUE
    /\ AutoBody(fin[Len(fout) + 1], AutoDist)
    /\ UNCHANGED <<fin, cache, fsTemplate, fsDist, now, calls, hist>>

\* The renderer has returned: the page is built, stored and returned.
AutoRendered ==
    /\ fpc = "auto.render"
    /\ LET call == fout[Len(fout)]
           html == AutoHtml(template,
                            AutoContent(call.renderer, componentMap[call.name]))
       IN /\ cache' = IF options.cache
                      THEN MapSet(cache, AutoCacheKey(call.name),
                                  [html |-> html, timestamp |-> now])
                      ELSE cache
          /\ fout' = [fout EXCEPT ![Len(fout)].outcome = "rendered"]
    /\ fpc' = "auto.idle"
    /\ UNCHANGED <<fin, options, template, isInitialized, componentMap,
                   fsTemplate, fsDist, now, calls, hist>>

NextAuto ==
    \/ AutoStart
    \/ AutoInitialized
    \/ AutoRendered
    \/ Tick

SpecAuto == InitAuto /\ [][NextAuto]_vars

\* ------------------------------------------------------------------- claims

\* What a call shows when it was served from the cache: it returned, with the
\* document the lookup found, and called neither an adapter nor _applyTemplate.
ServedFromCache(call) ==
    /\ call.pc = "done"
    /\ call.result = call.lookup.html
    /\ call.adapterCalls = 0
    /\ call.applyCalls = 0

Finished(call) == call.pc \in {"done", "failed"}

\* C1, as the claim states it: a render call made while an earlier call's
\* document for the same fingerprint is stored, less than cacheMaxAge old and
\* not flushed, returns that document and calls neither an adapter nor
\* _applyTemplate.
C1_SecondCallServedAsStated ==
    \A b \in Calls : \A a \in calls[b].prev :
        /\ calls[b].adapterCalls = 0
        /\ calls[b].applyCalls = 0
        /\ Finished(calls[b]) => /\ calls[b].pc = "done"
                                 /\ calls[b].result = calls[a].result

\* C1, amended: the age that counts is the age at the cache lookup, which with
\* hotReload follows a successful reload of the registry.  A render call whose
\* lookup finds an entry less than cacheMaxAge old returns exactly the document
\* an earlier call with the same fingerprint stored and returned, and calls
\* neither an adapter nor _applyTemplate.
C1_SecondCallServedFromCache ==
    \A b \in Calls :
        (calls[b].lookup.found /\ calls[b].lookup.age < options.cacheMaxAge)
        => /\ ServedFromCache(calls[b])
           /\ \E a \in Calls \ {b} :
                /\ calls[a].pc = "done" /\ calls[a].stored
                /\ calls[a].key = calls[b].key
                /\ calls[a].storeTs = calls[b].lookup.ts
                /\ calls[a].result = calls[b].result

\* C1's case: after a reload of the registry, a second call is served the
\* document of the first.
C1_Witness ==
    /\ options.hotReload
    /\ calls[1].pc = "done" /\ calls[1].stored /\ calls[1].adapterCalls = 1
    /\ calls[2].pc = "done" /\ 1 \in calls[2].prev /\ calls[2].reloads = 1
    /\ calls[2].lookup.found /\ calls[2].adapterCalls = 0
    /\ calls[2].result = calls[1].result

\* C2: a cache lookup is a hit exactly when it finds an entry stored less than
\* cacheMaxAge ago: then the call returns the stored document unchanged; a
\* lookup that finds none, or one whose age has reached cacheMaxAge, goes on to
\* resolve the component, as a miss does.
C2_CacheTtl ==
    \A c \in Calls :
        calls[c].lookup.did =>
            IF calls[c].lookup.found /\ calls[c].lookup.age < options.cacheMaxAge
            THEN ServedFromCache(calls[c]) /\ ~calls[c].resolved
            ELSE calls[c].resolved

\* C2's case: a lookup finds an entry older than cacheMaxAge and the call
\* renders again.
C2_Witness ==
    \E c \in Calls :
        /\ calls[c].lookup.found
        /\ calls[c].lookup.age > options.cacheMaxAge
        /\ calls[c].pc = "done" /\ calls[c].adapterCalls = 1

\* C5: a render call whose name is not in the registry when it resolves the
\* component fails with the not-found error: it calls no adapter, returns no
\* document and stores none.
C5_NotFound ==
    \A c \in Calls :
        calls[c].absent =>
            /\ calls[c].pc = "failed"
            /\ calls[c].err = "NotFound"
            /\ calls[c].result = NoDoc
            /\ calls[c].adapterCalls = 0
            /\ ~calls[c].stored

\* C5's case: a name the registry held is asked for after a hot reload that
\* dropped it.
C5_Witness ==
    \E c \in Calls :
        /\ calls[c].absent /\ calls[c].err = "NotFound"
        /\ calls[c].name = NameBad /\ calls[c].reloads > 0

\* C6: a render call whose component, called by _renderVanilla, returned a
\* value that is not a string fails with the type-contract error; it returns
\* no document, _applyTemplate is not called and the cache is not written.
C6_PlainTypeContract ==
    \A c \in Calls :
        calls[c].plainNonString =>
            /\ ~calls[c].pend.ok /\ calls[c].pend.err = "TypeContract"
            /\ calls[c].pc \in {"adapter_wait", "failed"}
            /\ calls[c].pc = "failed" => calls[c].err = "TypeContract"
            /\ calls[c].result = NoDoc
            /\ calls[c].applyCalls = 0
            /\ ~calls[c].stored

\* C6's case: the call for the component that returns a number has failed.
C6_Witness ==
    \E c \in Calls :
        /\ calls[c].plainNonString /\ calls[c].pc = "failed"
        /\ calls[c].name = NameBad

\* C7, as the claim states it: with hotReload off, initialization runs at most
\* once.
C7_InitializedOnce ==
    ~options.hotReload => hist.inits <= 1 /\ hist.tplLoads <= 1

\* Two bags hold the same top-level key/value set: both are records and each
\* entry of one is an entry of the other, in whatever order it was inserted.
SameEntries(p1, p2) ==
    /\ ~p1.arr /\ ~p2.arr
    /\ {p1.e[i] : i \in 1..Len(p1.e)} = {p2.e[i] : i \in 1..Len(p2.e)}

\* C3: for every component name and every two property bags that hold the same
\* top-level key/value set in a different insertion order, _cacheKey gives the
\* same fingerprint.
C3_FingerprintDeterminism ==
    (fpc = "keyed" /\ fin.n1 = fin.n2 /\ SameEntries(fin.p1, fin.p2))
    => fout.k1 = fout.k2

\* C3's case: two bags with the entries of keys "b" and "a" in opposite
\* insertion orders got the same fingerprint.
C3_Witness ==
    /\ fpc = "keyed" /\ fin.n1 = fin.n2
    /\ fin.p1 # fin.p2 /\ SameEntries(fin.p1, fin.p2)
    /\ Len(fin.p1.e) = 2 /\ fin.p1.e[1].k = <<"b">> /\ fin.p1.e[2].k = <<"a">>
    /\ fout.k1 = fout.k2

\* Two bags are semantically the same: both arrays or both records, with the
\* same keys, each holding the same value (undefined is a value).
SameBag(p1, p2) ==
    /\ p1.arr = p2.arr
    /\ {p1.e[i] : i \in 1..Len(p1.e)} = {p2.e[i] : i \in 1..Len(p2.e)}

\* C4, as the claim states it: two different component names, or two
\* semantically different bags (an array against a record with index keys and
\* a key holding undefined against a missing key included), get different
\* fingerprints, the digest taken as collision-free.
C4_FingerprintDiscriminates ==
    (fpc = "keyed" /\ (fin.n1 # fin.n2 \/ ~SameBag(fin.p1, fin.p2)))
    => fout.k1 # fout.k2

FrameworkTags == {"react", "vue", "vanilla"}

\* C8: _detectFramework does not throw and returns one of the three tags for
\* every shape: null, undefined, a primitive, a function, a record with or
\* without render and default members.
C8_DetectorTotal == fpc = "detected" => fout \in FrameworkTags

\* C8's case: null, whose typeof is "object", was classified.
C8_Witness == fpc = "detected" /\ fin.kind = "null" /\ fout = "vanilla"

\* The four ordered rules, the display name of a function being its name or
\* its displayName: it starts with an uppercase letter when either does.
IsRecord(mod) == mod.kind = "object"
IsCallable(member) == member.t = "function"
UppercaseName(fn) ==
    \E n \in {fn.name, fn.displayName} : n # <<>> /\ n[1] \in UpperAscii
Rule2(fn) == IF UppercaseName(fn) THEN "react" ELSE "vanilla"
RuleTag(mod) ==
    IF IsRecord(mod) /\ IsCallable(mod.render) THEN "vue"
    ELSE IF mod.kind = "function" THEN Rule2(mod.fn)
    ELSE IF IsRecord(mod) /\ IsCallable(mod.default) THEN Rule2(mod.default.fn)
    ELSE "vanilla"

HtmlSpecials == {"&", "<", ">", "\"", "'"}

HasSpecial(title) == \E i \in 1..Len(title) : title[i] \in HtmlSpecials

\* The title as given occurs in the document at position i, every character
\* of it copied from the title.
RawTitleAt(doc, title, i) ==
    /\ i + Len(title) - 1 <= Len(doc)
    /\ \A j \in 1..Len(title) : doc[i + j - 1] = [c |-> title[j], o |-> "p"]

\* The text the code wrote itself occurs in the document at position i.
WrittenAt(doc, text, i) ==
    /\ i >= 1 /\ i + Len(text) - 1 <= Len(doc)
    /\ \A j \in 1..Len(text) : doc[i + j - 1] = [c |-> text[j], o |-> "x"]

\* Position i lies in the script that carries the props to the client.
InPropsScript(doc, i) ==
    /\ \E b \in 1..i : b + Len(ScriptOpen) <= i /\ WrittenAt(doc, ScriptOpen, b)
    /\ \E e \in i..Len(doc) : e > i /\ WrittenAt(doc, ScriptClose, e)

\* The entity-escaped form of a text.
EntityOf(ch) ==
    CASE ch = "&" -> EntityAmp
      [] ch = "<" -> EntityLt
      [] ch = ">" -> EntityGt
      [] ch = "\"" -> EntityQuot
      [] ch = "'" -> EntityApos
      [] OTHER -> <<ch>>
RECURSIVE EscapedForm(_)
EscapedForm(text) ==
    IF text = <<>> THEN <<>> ELSE EntityOf(Head(text)) \o EscapedForm(Tail(text))

FragmentAt(doc, text, i) ==
    /\ i + Len(text) - 1 <= Len(doc)
    /\ \A j \in 1..Len(text) : doc[i + j - 1] = [c |-> text[j], o |-> "f"]

\* C11, as the claim states it: whatever text the adapter returned ("$"
\* sequences, the tokens {{title}} and {{description}} and the text </head>
\* included), the document holds it verbatim, character for character, and
\* the later substitutions have not changed it.
C11_FragmentVerbatim ==
    fpc = "paged" => \E i \in 1..Len(fout) : FragmentAt(fout, fin.text, i)

\* A returned text that no substitution step touches: no "$" in it, no token
\* and no </head>.
Untouched(text) ==
    /\ "$" \notin {text[i] : i \in 1..Len(text)}
    /\ \A tok \in {TokenContent, TokenTitle, TokenDescription, CloseHead} :
         ~ \E i \in 1..Len(text) :
               /\ i + Len(tok) - 1 <= Len(text)
               /\ SubSeq(text, i, i + Len(tok) - 1) = tok

\* What the claim expects for a prop: the value when the bag holds one (present
\* as "the bag has the key", or as "the value is not empty"), else nothing.
PropChars(props, k) == Chars(GetProp(props, k).s)
PropPresent(props, k) == HasOwn(props.e, k)
PropNonEmpty(props, k) == HasOwn(props.e, k) /\ GetProp(props, k).s # <<>>

\* The document of a plain component: it holds the returned text, holds the
\* props script when the template has </head>, has no {{title}} and no
\* {{description}} left, and where the template had them stands the escaped
\* value of the prop when UseTitle / UseDescription say the prop counts, and
\* the default, not the value, when they say it does not.
PlainPage(doc, tpl, text, props, UseTitle, UseDescription) ==
    /\ \E i \in 1..Len(doc) : FragmentAt(doc, text, i)
    /\ Contains(tpl, CloseHead) => Contains(doc, Chars(PropsScript(props)))
    /\ ~Contains(doc, TokenTitle) /\ ~Contains(doc, TokenDescription)
    /\ Contains(tpl, TokenTitle) =>
         IF UseTitle
         THEN Contains(doc, EscapedForm(PropChars(props, KeyTitle)))
                /\ ~Contains(doc, DefaultTitle)
         ELSE Contains(doc, DefaultTitle)
    /\ Contains(tpl, TokenDescription) =>
         IF UseDescription
         THEN Contains(doc, EscapedForm(PropChars(props, KeyDescription)))
                /\ ~Contains(doc, DefaultDescription)
         ELSE Contains(doc, DefaultDescription)

Applied(call) == call.pc = "done" /\ call.applyCalls = 1

AnsweredWithErrorPage(answer) ==
    /\ answer.kind = "page" /\ answer.status = 500
    /\ answer.next = NoError
    /\ Contains(answer.body, PageHead \o EscapedForm(ErrorText(answer.thrown)) \o PageTail)
    /\ \A i \in 1..Len(answer.body) :
         answer.body[i].o = "e" => answer.body[i].c \notin HtmlSpecials

Failed(answer) == answer.thrown # NoError

\* C14, as the claim states it: at both entry points a failure at any stage
\* of a request is answered with the diagnostic page, and the error itself is
\* not passed on.
C14_EveryFailureAnsweredWithPage ==
    (fpc = "http.answered" /\ Failed(fout)) => AnsweredWithErrorPage(fout)

\* C14, amended: the request handler of createServer answers a failure at any
\* stage (props, registry reload, component lookup, adapter) with status 500
\* and the diagnostic page that carries the escaped stack or message.  The
\* handler of createMiddleware writes no answer for a failure: it passes the
\* error itself to next.
C14_FailureHandledPerEntryPoint ==
    (fpc = "http.answered" /\ Failed(fout))
    => IF fin.entry = "server"
       THEN AnsweredWithErrorPage(fout)
       ELSE fout.kind = "next" /\ fout.next = fout.thrown /\ fout.body = <<>>

\* C14's case: the server's render failed for a component that is not there
\* and the page carries the quoted name escaped.
C14_Witness ==
    /\ fpc = "http.answered"
    /\ fin.entry = "server"
    /\ fout.thrown.kind = "NotFound"
    /\ fout.status = 500
    /\ Contains(fout.body, EntityQuot \o NameMissing \o EntityQuot)

Initializing(call) == call.ctx = "init" /\ call.pc \in {"tpl_read", "dir_read"}

FilesAvailable == fsTemplate # Unreadable /\ fsDist.exists /\ LoadComponents(fsDist).ok

\* The read the call waits for cannot succeed, or the step after it cannot.
FilesFail(call) ==
    IF call.pc = "tpl_read"
    THEN fsTemplate = Unreadable \/ ~fsDist.exists
    ELSE ~fsDist.exists \/ ~LoadComponents(fsDist).ok

C16_RendererDetectedPerCall ==
    \A i \in 1..Len(fout) :
        fout[i].renderer # "none"
            => fout[i].renderer = AutoDetect(AutoDist[fout[i].name])

\* --- C17

\* Two values are the same JSON value: the same primitive, or records with the
\* same members in whatever order they were inserted.
SameValue(v1, v2) ==
    /\ v1.t = v2.t /\ v1.n = v2.n /\ v1.s = v2.s
    /\ {v1.kv[i] : i \in 1..Len(v1.kv)} = {v2.kv[i] : i \in 1..Len(v2.kv)}

\* Two bags are equal up to the order of the keys, at the top and inside the
\* records they hold.
SameUpToKeyOrder(p1, p2) ==
    /\ ~p1.arr /\ ~p2.arr
    /\ {p1.e[i].k : i \in 1..Len(p1.e)} = {p2.e[i].k : i \in 1..Len(p2.e)}
    /\ \A i \in 1..Len(p1.e) :
         SameValue(p1.e[i].v, GetOwn(p2.e, p1.e[i].k).v)

\* C17: for every component name and every two property bags that are equal up
\* to the order of the keys, at the top level or inside a nested record,
\* _cacheKey gives the same fingerprint.
C17_NestedOrderIgnored ==
    (fpc = "keyed" /\ fin.n1 = fin.n2 /\ SameUpToKeyOrder(fin.p1, fin.p2))
    => fout.k1 = fout.k2

\* --- C18

\* C18: the cache lookup of render treats an entry as absent exactly when there
\* is none at the key or its age at the lookup exceeds cacheMaxAge: an entry
\* whose age is cacheMaxAge or less is served, an older or a missing one sends
\* the call on to resolve the component.
C18_ServedUpToTtl ==
    \A c \in Calls :
        calls[c].lookup.did =>
            IF calls[c].lookup.found /\ calls[c].lookup.age <= options.cacheMaxAge
            THEN ServedFromCache(calls[c])
            ELSE calls[c].resolved

\* --- C19

\* C19: render calls for the same fingerprint are not deduplicated.  A call
\* whose lookup finds no entry and whose component is registered invokes the
\* adapter, whatever the other calls are doing; a call whose adapter returned
\* writes its document at its key over whatever is stored there, so the entry
\* that remains is the one written last.
C19_NoDeduplication ==
    [][\A c \in Calls :
         /\ (/\ ~calls[c].lookup.did /\ calls'[c].lookup.did
             /\ ~calls'[c].lookup.found /\ ~calls'[c].absent)
               => calls'[c].pc = "adapter_wait" /\ calls'[c].adapterCalls = 1
         /\ (calls[c].pc = "adapter_wait" /\ calls'[c].pc = "done" /\ options.cache)
               => /\ calls'[c].stored
                  /\ calls[c].key \in DOMAIN cache'
                  /\ cache'[calls[c].key] =
                        [html |-> calls'[c].result, ts |-> now, undefined |-> FALSE]
      ]_vars

\* C19's case: two calls for one fingerprint both missed the cache, both
\* invoked the adapter and both wrote; the second wrote later and over the
\* first's entry, and its entry is the one in the cache.
C19_Witness ==
    /\ options.cache
    /\ calls[1].pc = "done" /\ calls[2].pc = "done"
    /\ calls[1].key = calls[2].key
    /\ \A c \in {1, 2} :
         /\ calls[c].lookup.did /\ ~calls[c].lookup.found
         /\ calls[c].adapterCalls = 1 /\ calls[c].stored /\ ~calls[c].cleared
    /\ calls[1].storeTs < calls[2].storeTs
    /\ calls[1].result # calls[2].result
    /\ cache[calls[2].key] =
         [html |-> calls[2].result, ts |-> calls[2].storeTs, undefined |-> FALSE]

\* --- C20

\* A registry that one finished load cycle produced.
CompleteRegistry(map) ==
    \E d \in DistStates :
        d.exists /\ LoadComponents(d).ok /\ map = LoadComponents(d).map

\* C20: in every state, so at every point where a render call reads it, the
\* registry is the empty map it was constructed as or the complete result of
\* one load cycle that finished, also while a load of another call is in
\* progress and after one failed part-way.
C20_RegistryAtomic == componentMap = EmptyMap \/ CompleteRegistry(componentMap)

\* C20's case: a hot reload failed at the second file of the build, a load of
\* the other call is in progress, and the registry is still the complete one
\* of the build before.
C20_Witness ==
    /\ fsDist = DistBroken
    /\ \E c, d \in Calls :
         /\ calls[c].pc = "failed" /\ calls[c].ctx = "hot"
         /\ calls[c].err = "LoadError"
         /\ calls[d].pc = "dir_read"
    /\ componentMap = LoadComponents(DistA).map
    /\ componentMap # LoadComponents(DistBroken).partial

\* --- C21

\* C21: with hotReload on, a render call has loaded the registry again, within
\* that call, before it computes the fingerprint and looks the cache up, also
\* when it then returns the cached document or fails with not-found; with
\* hotReload off, a render call started on an initialized instance loads
\* nothing and no step of it changes the registry.
C21_HotReloadEveryCall ==
    /\ [](\A c \in Calls :
            calls[c].op = "render" =>
                IF options.hotReload
                THEN calls[c].key # NoKey
                       => /\ calls[c].ctx = "hot" /\ calls[c].pc # "dir_read"
                          /\ calls[c].reloads >= 1
                ELSE /\ calls[c].ctx # "hot"
                     /\ calls[c].ctx = "none"
                          => calls[c].reloads = 0
                               /\ calls[c].pc \notin {"tpl_read", "dir_read"})
    /\ [][\A c \in Calls :
            (/\ ~options.hotReload /\ isInitialized
             /\ calls[c].pc = "idle" /\ calls'[c].pc # "idle")
               => calls'[c].ctx = "none" /\ componentMap' = componentMap
       ]_vars

\* C21's case: with hotReload on, the second call loaded the registry again
\* and was then served from the cache; with hotReload on, a call loaded the
\* registry again and then failed with not-found.
C21_Witness ==
    /\ options.hotReload
    /\ calls[1].pc = "done" /\ calls[1].stored
    /\ calls[2].op = "render" /\ calls[2].ctx = "hot" /\ calls[2].reloads = 1
    /\ calls[2].lookup.found /\ ServedFromCache(calls[2])

C21_WitnessNotFound ==
    /\ options.hotReload
    /\ \E c \in Calls :
         /\ calls[c].ctx = "hot" /\ calls[c].reloads >= 1
         /\ calls[c].pc = "failed" /\ calls[c].err = "NotFound"

\* --- C22

Rank(call) ==
    CASE call.pc = "idle" -> 0
      [] call.pc = "tpl_read" -> 1
      [] call.pc = "dir_read" /\ call.ctx = "init" -> 2
      [] call.pc = "dir_read" /\ call.ctx = "hot" -> 3
      [] call.pc = "adapter_wait" -> 4
      [] OTHER -> 5

\* The adapter call that the registry entry of some complete build asks for.
AdapterOfEntry(call) ==
    \E d \in DistStates :
        /\ d.exists /\ LoadComponents(d).ok
        /\ call.name \in DOMAIN LoadComponents(d).map
        /\ LET e == LoadComponents(d).map[call.name]
           IN call.pend = RenderWith(e.framework, e.module, call.props)

\* What a render call has done, in the order of render's steps: each step was
\* taken only after the steps before it, and none twice.
InOrder(call) ==
    /\ call.key # NoKey => isInitialized
    /\ (call.key # NoKey /\ options.hotReload) => call.ctx = "hot" /\ call.reloads >= 1
    /\ call.lookup.did <=> (call.key # NoKey /\ options.cache)
    /\ call.resolved
         => /\ call.key # NoKey
            /\ ~(call.lookup.found /\ call.lookup.age < options.cacheMaxAge)
    /\ call.adapterCalls \in {0, 1}
    /\ call.adapterCalls = 1 <=> (call.resolved /\ ~call.absent)
    /\ call.adapterCalls = 1 => AdapterOfEntry(call)
    /\ call.applyCalls \in {0, 1}
    /\ call.applyCalls = 1
         <=> (call.adapterCalls = 1 /\ call.pend.ok /\ call.pc = "done")
    /\ call.stored <=> (call.applyCalls = 1 /\ options.cache)
    /\ call.pc = "adapter_wait" <=> (call.adapterCalls = 1 /\ Rank(call) < 5)
    /\ call.pc = "done"
         => \/ ServedFromCache(call) /\ ~call.resolved
            \/ call.applyCalls = 1
                 /\ call.result = MakeDoc(call.result.template, call.pend.content,
                                          call.props)
    /\ call.pc = "failed" => call.result = NoDoc /\ ~call.stored

\* C23: within one render call the steps happen in the order of render, none
\* skipped and none repeated: ensure initialized, the hot reload when
\* configured, the fingerprint, the cache lookup, the registry lookup, one call
\* of the adapter named by the registry entry, the template, the store, the
\* return.  A cache entry is one that a call stored after its adapter returned
\* and its template was applied.
C23_StepsInOrder ==
    /\ [](\A c \in Calls : calls[c].op = "render" => InOrder(calls[c]))
    /\ [](\A k \in DOMAIN cache :
            \E c \in Calls :
                /\ calls[c].key = k /\ calls[c].stored /\ calls[c].applyCalls = 1
                /\ calls[c].pend.ok /\ cache[k].html = calls[c].result)
    /\ [][\A c \in Calls :
            calls'[c].pc # calls[c].pc => Rank(calls'[c]) > Rank(calls[c])]_vars

\* C23's case: a first call on a hot-reload instance went through every step
\* and stored its document.
C23_Witness ==
    /\ options.hotReload /\ options.cache
    /\ calls[1].op = "render" /\ calls[1].pc = "done"
    /\ calls[1].ctx = "hot" /\ calls[1].reloads = 2
    /\ calls[1].lookup.did /\ calls[1].resolved
    /\ calls[1].adapterCalls = 1 /\ calls[1].applyCalls = 1 /\ calls[1].stored
    /\ calls[1].key \in DOMAIN cache

\* --- C24

RenderFailures == {"NotFound", "RenderError", "TypeContract", "NotAFunction"}

\* C24: the step in which a render call fails after initialization, with
\* not-found, an exception of the adapter or a plain component's non-string,
\* leaves the cache, the template and the initialized flag as they were, and
\* the registry too (as the call's own load, when that step completes one, has
\* left it); and a call whose registered component renders ends with its
\* document, whatever calls failed before it.
C24_FailureLeavesInstance ==
    /\ [][\A c \in Calls :
            (calls[c].pc # "failed" /\ calls'[c].pc = "failed"
               /\ calls'[c].err \in RenderFailures)
            => /\ cache' = cache
               /\ template' = template
               /\ isInitialized'
               /\ IF calls[c].pc = "dir_read"
                  THEN componentMap' = LoadComponents(fsDist).map
                  ELSE componentMap' = componentMap /\ isInitialized
               /\ \A d \in Calls \ {c} : calls'[d] = calls[d]
       ]_vars
    /\ [](\A c \in Calls :
            (calls[c].adapterCalls = 1 /\ calls[c].pend.ok /\ Rank(calls[c]) = 5)
            => calls[c].pc = "done" /\ calls[c].result # NoDoc)

\* C24's case: the first call failed with not-found in the step that
\* initialized the instance; the second call, made after it on the
\* initialized instance, rendered a registered component and returned it.
C24_Witness ==
    /\ ~options.hotReload
    /\ calls[1].pc = "failed" /\ calls[1].err = "NotFound"
    /\ calls[2].op = "render" /\ calls[2].ctx = "none" /\ Applied(calls[2])
    /\ hist.inits = 1

\* The adapter threw, and the non-string of a plain component: both happen.
C24_WitnessAdapter ==
    /\ \E c \in Calls : calls[c].pc = "failed" /\ calls[c].err = "RenderError"
    /\ \E c \in Calls : calls[c].pc = "failed" /\ calls[c].err = "TypeContract"

\* --- C25

\* The lookup of the call was a miss: it found nothing, or a stale entry.
Missed(call) ==
    /\ call.lookup.did
    /\ ~(call.lookup.found /\ call.lookup.age < options.cacheMaxAge)

\* C25, as the claim states it: with the cache on, every render call that
\* missed the cache and ended has stored an entry at its fingerprint.
C25_EveryMissStores ==
    \A c \in Calls :
        (options.cache /\ Missed(calls[c]) /\ Finished(calls[c]))
        => calls[c].stored

\* C25, amended: with the cache on, every render call that missed the cache
\* and returned a document has stored it: in the step in which it returns, the
\* entry at its fingerprint becomes that document with the time of the store,
\* whatever stood there, so no stale entry is left at the key by that step.  A
\* call that missed and failed stores nothing and leaves the key as it was.
C25_ReturningMissStores ==
    /\ [](\A c \in Calls :
            (options.cache /\ Missed(calls[c]) /\ calls[c].pc = "done")
            => calls[c].stored /\ calls[c].applyCalls = 1)
    /\ [][\A c \in Calls :
            (options.cache /\ Missed(calls[c]) /\ ~Finished(calls[c])
               /\ Finished(calls'[c]))
            => IF calls'[c].pc = "done"
               THEN /\ calls[c].key \in DOMAIN cache'
                    /\ cache'[calls[c].key].html = calls'[c].result
                    /\ cache'[calls[c].key].ts = now'
                    /\ now' - cache'[calls[c].key].ts < options.cacheMaxAge
               ELSE cache' = cache
       ]_vars

\* C25's case: a call found a stale entry at its fingerprint, rendered, and
\* its entry stands in place of the stale one.
C25_Witness ==
    \E c \in Calls :
        /\ calls[c].lookup.found /\ calls[c].lookup.age >= options.cacheMaxAge
        /\ calls[c].pc = "done" /\ calls[c].stored
        /\ calls[c].key \in DOMAIN cache
        /\ cache[calls[c].key].ts = calls[c].storeTs
        /\ cache[calls[c].key].ts > calls[c].lookup.ts
        /\ cache[calls[c].key].html = calls[c].result

\* --- C26

\* C26: with the cache option off the cache map is empty in every state; no
\* render call looks it up or stores into it, and every render call that
\* returns has called an adapter and applied the template.
C26_CacheOffUnused ==
    ~options.cache
      => /\ cache = EmptyMap
         /\ \A c \in Calls :
              /\ ~calls[c].lookup.did /\ ~calls[c].stored
              /\ (calls[c].op = "render" /\ calls[c].pc = "done")
                   => /\ calls[c].adapterCalls = 1 /\ calls[c].applyCalls = 1
                      /\ calls[c].result # NoDoc

\* C26's case: with the cache off, the same render was made twice and both
\* calls ran the adapter and applied the template.
C26_Witness ==
    /\ ~options.cache /\ cache = EmptyMap
    /\ calls[1].op = "render" /\ calls[2].op = "render"
    /\ calls[1].name = calls[2].name /\ calls[1].props = calls[2].props
    /\ \A c \in {1, 2} :
         calls[c].pc = "done" /\ calls[c].adapterCalls = 1 /\ calls[c].applyCalls = 1

\* --- C27

\* The positions where the document holds the text, whoever wrote it.
Occurrences(doc, text) == {i \in 1..Len(doc) : MatchAt(doc, text, i)}

\* The script stands at position b of the document: its opening text, a
\* payload without a raw "<", its closing text, the line break and </head>,
\* with no </head> before it.
HydrationScriptAt(doc, b) ==
    /\ MatchAt(doc, ScriptOpen, b)
    /\ \E e \in (b + Len(ScriptOpen))..Len(doc) :
         /\ MatchAt(doc, ScriptClose \o <<"\n">> \o CloseHead, e)
         /\ \A i \in (b + Len(ScriptOpen))..e : doc[i].c # "<"
    /\ \A i \in 1..b : ~MatchAt(doc, CloseHead, i)

\* C27: for every property bag and every template that holds </head>, the
\* document holds exactly one hydration script, right before the first
\* </head>, and no raw "<" stands between the script's opening and closing
\* tags, whatever the property values hold ("<" and "$" sequences included).
C27_OneSafeScript ==
    (fpc = "applied" /\ Contains(fin.template, CloseHead))
    => /\ Cardinality(Occurrences(fout, ScriptOpen)) = 1
       /\ \A b \in Occurrences(fout, ScriptOpen) : HydrationScriptAt(fout, b)

\* The same for the titles that hold no "$".
C27_SafeWithoutDollar ==
    (fpc = "applied" /\ Contains(fin.template, CloseHead)
       /\ \A i \in 1..Len(fin.title) : fin.title[i] # "$")
    => /\ Cardinality(Occurrences(fout, ScriptOpen)) = 1
       /\ \A b \in Occurrences(fout, ScriptOpen) : HydrationScriptAt(fout, b)

\* --- C28

\* C28: with hotReload off, once the instance is initialized no step assigns
\* this.template again: no render, initialize or clearCache, and no
\* initialization still pending from a concurrent first call.
C28_TemplateFixedOnceReady ==
    [][(~options.hotReload /\ isInitialized) => template' = template]_vars

\* --- C29

\* C29: given that the reads complete, every call whose adapter call, if it
\* makes one, eventually completes ends with a document or an error, whether
\* the adapter calls of the other calls complete or not: a call whose adapter
\* never completes holds up only itself.
C29_EveryCallEnds ==
    \A c \in Calls :
        WF_vars(AdapterDone(c))
            => (calls[c].pc # "idle" ~> Finished(calls[c]))

\* C29's case: the first call waits for its adapter while the second call,
\* made after it for the same component, has ended with its document.
C29_Witness ==
    /\ calls[1].pc = "adapter_wait"
    /\ calls[2].op = "render" /\ calls[2].name = calls[1].name
    /\ calls[2].pc = "done" /\ calls[2].applyCalls = 1

\* --- C30

\* C30: the component the adapter renders is the one the classification
\* looked at: an artifact classified vue for the callable render member of the
\* record is rendered as that record, and an artifact classified from its
\* default member is rendered as that member.
C30_AdapterRendersWhatWasClassified ==
    fpc = "adapted" =>
        /\ (IsRecord(fin) /\ IsCallable(fin.render))
             => fout.framework = "vue" /\ fout.component.from = "self"
        /\ (IsRecord(fin) /\ ~IsCallable(fin.render) /\ IsCallable(fin.default))
             => /\ fout.framework = Rule2(fin.default.fn)
                /\ fout.component.from = "default"
                /\ fout.component.fn = fin.default.fn

\* The part about the default member alone.
C30_DefaultMemberRendered ==
    (fpc = "adapted" /\ IsRecord(fin) /\ ~IsCallable(fin.render)
       /\ IsCallable(fin.default))
    => fout.component.from = "default" /\ fout.component.fn = fin.default.fn

\* --- C31

\* The call was made after the last clearCache that had a call before it.
AfterClear(c) ==
    /\ calls[c].pc # "idle" /\ ~calls[c].beforeClear
    /\ \E a \in Calls : calls[a].beforeClear

\* The call is the first render of its fingerprint made after that clearCache.
FirstAfterClear(c) ==
    /\ AfterClear(c) /\ calls[c].op = "render"
    /\ \A a \in Calls :
         (a < c /\ ~calls[a].beforeClear /\ calls[a].op = "render")
         => CallKey(calls[a].name, calls[a].props)
              # CallKey(calls[c].name, calls[c].props)

\* The call has stored an entry that no clearCache has removed since.
StoredSinceClear(a) == calls[a].stored /\ ~calls[a].cleared

\* A step of clearCache, told by what it leaves in the calls' records.
ClearStep ==
    \E c \in Calls : \/ calls'[c].beforeClear /\ ~calls[c].beforeClear
                     \/ calls'[c].cleared /\ ~calls[c].cleared

\* clearCache empties the cache and leaves the registry, the template, the
\* initialized flag and the options as they are.
C31_ClearCacheFrame ==
    [][ClearStep => /\ cache' = EmptyMap
                    /\ UNCHANGED <<componentMap, template, isInitialized, options>>]_vars

\* C31, as the claim states it: after clearCache the cache holds nothing until
\* a render call made after it stores an entry, so the first render of a
\* fingerprint made after clearCache misses the cache.
C31_EmptyUntilLaterCallStores ==
    /\ ((\E a \in Calls : calls[a].beforeClear) /\ cache # EmptyMap)
         => \E a \in Calls : ~calls[a].beforeClear /\ StoredSinceClear(a)
    /\ \A c \in Calls :
         (FirstAfterClear(c) /\ calls[c].lookup.did) => Missed(calls[c])

\* What every entry of the cache and every lookup after clearCache answer to:
\* an entry in the cache was stored by a call that completed after the last
\* clearCache, and a render made after clearCache that finds an entry finds
\* one another call stored since; when it finds none and its component is
\* registered, it calls the adapter.
C31_EntriesStoredSinceClear ==
    /\ \A k \in DOMAIN cache :
         \E a \in Calls : StoredSinceClear(a) /\ calls[a].key = k
    /\ \A c \in Calls :
         AfterClear(c) =>
           /\ calls[c].lookup.found
                => \E a \in Calls \ {c} :
                     StoredSinceClear(a) /\ calls[a].key = calls[c].key
           /\ (calls[c].lookup.did /\ ~calls[c].lookup.found
                 /\ calls[c].resolved /\ ~calls[c].absent)
                => calls[c].adapterCalls = 1

\* C31: clearCache removes every entry and changes nothing else; afterwards the
\* cache holds only what calls completing after it have stored, among them
\* calls that were awaiting their adapter when it ran, and a render made after
\* it is served from the cache only by such an entry.
C31_ClearCacheEmptiesOnly ==
    []C31_EntriesStoredSinceClear /\ C31_ClearCacheFrame

\* C31's case: a call awaiting its adapter when clearCache ran has stored its
\* document since, and the first render made after clearCache was served it.
C31_Witness ==
    /\ calls[1].beforeClear /\ StoredSinceClear(1)
    /\ FirstAfterClear(2) /\ calls[2].pc = "done"
    /\ calls[2].lookup.found /\ ~Missed(calls[2])
    /\ calls[2].adapterCalls = 0 /\ calls[2].result = calls[1].result
    /\ cache # EmptyMap

====
